---- MODULE Spec2Model ----
(***************************************************************************)
(* AQI-to-Cigarettes: the AQI conversion engine (AQICalculator and its     *)
(* copies in simple-app.js and script.js), the city matcher (SmartSearch)  *)
(* and the application state store (StateManager) as state machines.       *)
(*                                                                         *)
(* Numbers.  A JavaScript number x is represented by the integer 100 * x   *)
(* (hundredths): the PM2.5 concentration 35.4 is 3540 and the AQI 100 is   *)
(* 10000.  Every literal of the source is written that way.  NaN and       *)
(* undefined are two reserved values outside the range of the model.       *)
(* Arithmetic is exact rational arithmetic; the places where the IEEE-754  *)
(* double evaluation of the source expression falls on the other side of   *)
(* a rounding tie are listed in DoubleBelowTie and AdvancedBelowTie.       *)
(***************************************************************************)
EXTENDS Integers, Sequences, FiniteSets, TLC

VARIABLES
  input,   \* the arguments of the call: [kind, pm25, aqi, temperature, humidity]
  op,      \* the operation that has been applied to input ("none" before the call)
  ret,     \* the completion of the call: [completion, value]
  cities,        \* SmartSearch.cities: the candidate list
  searchIndex,   \* SmartSearch.searchIndex: term -> positions of the candidates
  searchHistory, \* SmartSearch.searchHistory: key -> number of recorded searches
  currentState,  \* StateManager.state: the properties, an array by its reference
  arrays,        \* the arrays in reach: reference -> elements
  stateHistory,  \* StateManager.history: the previous states, oldest first
  isUpdating,    \* StateManager.isUpdating
  snapshot,      \* the object the last getState() of a client returned
  notified,      \* the changes the last call handed to notifyListeners
  calls,         \* the number of calls made on the store
  clock,         \* the time in milliseconds
  apiCache,      \* the service worker's API cache: request -> stored response
  pendingPuts,   \* the cache.put calls of the service worker that have not settled
  answered,      \* the requests the service worker has answered with ok status
  listeners,     \* EventBus.events.get(e): the listeners of the event, in call order
  delivered,     \* the ids of the listeners the last emit has called, in call order
  registered,    \* the number of listeners registered so far
  dataCache,     \* DataManager.cache: cache key -> [data, timestamp]
  storage,       \* localStorage 'aqi_cache': the cache as last saved
  fetchCall,     \* the last cachedFetch or fetchWithRetry call and where it stands
  attempts,      \* the outcomes of the network attempts of that call, in order
  waits,         \* the delays that call has waited, in order
  requests,      \* the number of calls made on the DataManager
  appState,      \* the properties of the store of AQIApp that searchCity writes
  searches       \* the searchCity calls made, in the order of their calls

searchVars == <<cities, searchIndex, searchHistory>>
stateVars ==
  <<currentState, arrays, stateHistory, isUpdating, snapshot, notified, calls>>
workerVars == <<apiCache, pendingPuts, answered>>
busVars == <<listeners, delivered, registered>>
dataVars == <<dataCache, storage, fetchCall, attempts, waits, requests>>
appVars == <<appState, searches>>
serviceVars == <<clock, workerVars, busVars, dataVars, appVars>>
vars == <<input, op, ret, searchVars, stateVars, serviceVars>>

\* the variables beside those of one component
besidesWorker == <<searchVars, stateVars, busVars, dataVars, appVars>>
besidesBus == <<searchVars, stateVars, clock, workerVars, dataVars, appVars>>
besidesData == <<searchVars, stateVars, workerVars, busVars, appVars>>
besidesApp == <<searchVars, stateVars, workerVars, busVars, dataVars>>

-----------------------------------------------------------------------------
(* Bounds of the model *)

\* negative concentrations down to -NegRange hundredths are tried
NegRange == 600
\* concentrations up to MaxPM25 hundredths are tried (the table ends at 50040)
MaxPM25 == 50100
\* AQI arguments are tried on a grid of half units from -NegAQISteps/2 to MaxAQISteps/2
NegAQISteps == 20
MaxAQISteps == 1100
\* temperatures (degrees) and humidities (percent) tried besides the defaults
MinTemperature == 23
MaxTemperature == 28
MinHumidity == 68
MaxHumidity == 73
\* the concentrations tried with temperatures and humidities: every AdvancedStep hundredths
AdvancedStep == 50
\* candidate lists of at most MaxCities candidates are tried
MaxCities == 2
\* recordSearch is tried until a key has been recorded MaxRecorded times
MaxRecorded == 1
\* the store and its clients are followed for MaxCalls calls
MaxCalls == 3
\* the clock is followed for MaxTicks steps of TickLength milliseconds
MaxTicks == 2
\* at most MaxPending calls of cache.put are in progress at a time
MaxPending == 1
\* at most MaxListeners listeners are registered on the event bus, one after another
MaxListeners == 3
\* at most MaxRequests calls are made on the DataManager
MaxRequests == 2
\* at most MaxSearches searchCity calls are made
MaxSearches == 2

-----------------------------------------------------------------------------
(* JavaScript numbers *)

Scale == 100
Half == 50
NaN == -1000000001
Undefined == -1000000002
\* the JavaScript value null
Null == -1000000003
\* the text of undefined
UndefinedString == "undefined"

\* ToNumber: undefined converts to NaN, a number to itself
ToNumber(x) == IF x = Undefined THEN NaN ELSE x

\* relational operators: every comparison with NaN is false
Lt(a, b) == ToNumber(a) # NaN /\ ToNumber(b) # NaN /\ a < b
Gt(a, b) == ToNumber(a) # NaN /\ ToNumber(b) # NaN /\ a > b
Le(a, b) == ToNumber(a) # NaN /\ ToNumber(b) # NaN /\ a <= b
Ge(a, b) == ToNumber(a) # NaN /\ ToNumber(b) # NaN /\ a >= b

SetMin(S) == CHOOSE x \in S : \A y \in S : x <= y

\* Arguments <<value, fromMin, fromMax>> at which the exact value of
\* ((value - fromMin) * (toMax - toMin)) / (fromMax - fromMin) + toMin is a
\* tie k + 1/2 and its double evaluation is just below the tie (2.28 * 50 is
\* 113.99999999999999 in double arithmetic, and so on).
DoubleBelowTie ==
  { <<-444, 0, 1200>>, <<228, 0, 1200>>, <<804, 0, 1200>>,
    <<828, 0, 1200>>, <<1020, 0, 1200>> }

\* the double num/den + add, kept as an exact rational; below: the double is
\* just below the exact value, which is a tie
Double(num, den, add, below) ==
  [num |-> num, den |-> den, add |-> add, below |-> below]

\* Math.round: the nearest integer, a tie goes up
MathRound(x) ==
  LET r == Scale * ((x.num \div x.den + x.add + Half) \div Scale)
  IN  IF x.below THEN r - Scale ELSE r

-----------------------------------------------------------------------------
(* The completion of a call *)

NoReturn == [completion |-> "none", value |-> 0]
Return(v) == [completion |-> "return", value |-> v]
\* the completion of a method that ends without a return statement
Normal == [completion |-> "normal", value |-> Undefined]

\* a Map without entries
EmptyMap == [key \in {} |-> 0]

\* the variables of the service worker before its first request
NoWorker ==
  /\ apiCache = EmptyMap
  /\ pendingPuts = {}
  /\ answered = {}

\* the variables of the event bus before the first subscription
NoBus ==
  /\ listeners = <<>>
  /\ delivered = <<>>
  /\ registered = 0

\* cache.get(key) of a key the Map does not hold (requests are counted from 1)
NoEntry == [data |-> [request |-> 0, attempt |-> 0], timestamp |-> 0]

\* options = {}
NoOptions == [ttl |-> Undefined, allowStale |-> FALSE]

NoCall ==
  [method |-> "none", url |-> "", options |-> NoOptions, began |-> 0,
   attempt |-> 0, phase |-> "idle", cached |-> NoEntry]

\* the variables of the DataManager before its first call
NoDataManager ==
  /\ dataCache = EmptyMap
  /\ storage = EmptyMap
  /\ fetchCall = NoCall
  /\ attempts = <<>>
  /\ waits = <<>>
  /\ requests = 0

\* currentCity: null (no city carries the empty name)
NoCity == [name |-> "", country |-> ""]

\* error: null (the field holds the message of an error otherwise)
NoError == "null"

\* new StateManager({currentCity: null, currentAQI: null, currentPM25: null,
\* ..., loading: false, error: null}); cigarettesEquivalent is not set
initialAppState ==
  [currentCity |-> NoCity, currentAQI |-> Null, currentPM25 |-> Null,
   cigarettesEquivalent |-> UndefinedString, loading |-> FALSE,
   error |-> NoError]

\* the variables of the application before its first search
NoApp ==
  /\ appState = initialAppState
  /\ searches = <<>>

\* the variables of the services where none of them is running
NoServices ==
  /\ clock = 0
  /\ NoWorker
  /\ NoBus
  /\ NoDataManager
  /\ NoApp

-----------------------------------------------------------------------------
(* AQICalculator (src/modules/AQICalculator.js) *)

aqiBreakpoints ==
  << [min |-> 0,     max |-> 1200,  aqiMin |-> 0,     aqiMax |-> 5000],
     [min |-> 1210,  max |-> 3540,  aqiMin |-> 5100,  aqiMax |-> 10000],
     [min |-> 3550,  max |-> 5540,  aqiMin |-> 10100, aqiMax |-> 15000],
     [min |-> 5550,  max |-> 15040, aqiMin |-> 15100, aqiMax |-> 20000],
     [min |-> 15050, max |-> 25040, aqiMin |-> 20100, aqiMax |-> 30000],
     [min |-> 25050, max |-> 35040, aqiMin |-> 30100, aqiMax |-> 40000],
     [min |-> 35050, max |-> 50040, aqiMin |-> 40100, aqiMax |-> 50000] >>

linearScale(value, fromMin, fromMax, toMin, toMax) ==
  IF fromMax = fromMin THEN toMin
  ELSE MathRound(Double((value - fromMin) * (toMax - toMin), fromMax - fromMin,
                        toMin, <<value, fromMin, fromMax>> \in DoubleBelowTie))

\* pm25Segments with the upper bound of a segment excluded (pm25 < breakpoint.max)
pm25SegmentsExclusiveMax(pm25) ==
  { i \in DOMAIN aqiBreakpoints :
      Ge(pm25, aqiBreakpoints[i].min) /\ Lt(pm25, aqiBreakpoints[i].max) }

\* the segments the loop of calculateAQIFromPM25 accepts for pm25
pm25Segments(pm25) ==
  { i \in DOMAIN aqiBreakpoints :
      Ge(pm25, aqiBreakpoints[i].min) /\ Le(pm25, aqiBreakpoints[i].max) }

calculateAQIFromPM25(pm25) ==
  IF Lt(pm25, 0) THEN 0
  ELSE IF Gt(pm25, 50040) THEN 50000
  ELSE IF pm25Segments(pm25) = {} THEN 0
  ELSE LET breakpoint == aqiBreakpoints[SetMin(pm25Segments(pm25))]
       IN  linearScale(pm25, breakpoint.min, breakpoint.max,
                       breakpoint.aqiMin, breakpoint.aqiMax)

\* the segments the loop of calculatePM25FromAQI accepts for aqi
aqiSegments(aqi) ==
  { i \in DOMAIN aqiBreakpoints :
      Ge(aqi, aqiBreakpoints[i].aqiMin) /\ Le(aqi, aqiBreakpoints[i].aqiMax) }

calculatePM25FromAQI(aqi) ==
  IF Lt(aqi, 0) THEN 0
  ELSE IF Gt(aqi, 50000) THEN 50040
  ELSE IF aqiSegments(aqi) = {} THEN 0
  ELSE LET breakpoint == aqiBreakpoints[SetMin(aqiSegments(aqi))]
       IN  linearScale(aqi, breakpoint.aqiMin, breakpoint.aqiMax,
                       breakpoint.min, breakpoint.max)

\* Number.prototype.toFixed(2): the decimal string of the nearest hundredth
\* (the larger one on a tie) of a double that is not negative
toFixed2(x) ==
  LET n == x.add + (2 * x.num + x.den) \div (2 * x.den)
  IN  ToString(n \div 100) \o "." \o ToString((n \div 10) % 10) \o ToString(n % 10)

calculateCigarettes(aqi) ==
  LET pm25 == calculatePM25FromAQI(aqi)
  IN  toFixed2(Double(pm25, 22, 0, FALSE))

\* Math.min(x, m) of a double x and a number m
MathMin(x, m) ==
  IF x.num >= (m - x.add) * x.den THEN Double(0, 1, m, FALSE) ELSE x

\* <<baseAQI, degrees above 25, percent above 70>> at which the exact product
\* baseAQI * (1 + dt * 0.01) * (1 + dh * 0.005) is a tie k + 1/2 and its
\* double evaluation is just below the tie (100 * 1.005 is 100.49999999999999);
\* complete for dt <= 6 and dh <= 6
AdvancedBelowTie ==
  { <<6000, 0, 5>>, <<10000, 0, 1>>, <<10000, 0, 3>>, <<10000, 0, 5>>,
    <<18000, 0, 5>>, <<22000, 0, 5>>, <<30000, 0, 1>>, <<30000, 0, 3>>,
    <<34000, 0, 5>>, <<38000, 0, 5>>, <<40000, 5, 5>>, <<42000, 0, 5>>,
    <<46000, 0, 5>> }

\* the adjusted value of calculateAdvancedAQI before Math.min and Math.round:
\* baseAQI, multiplied by 1 + (temperature - 25) * 0.01 when temperature > 25
\* and by 1 + (humidity - 70) * 0.005 when humidity > 70
adjustedAQI(baseAQI, temperature, humidity) ==
  LET dt == IF Gt(temperature, 2500) THEN (temperature - 2500) \div Scale ELSE 0
      dh == IF Gt(humidity, 7000) THEN (humidity - 7000) \div Scale ELSE 0
  IN  Double(baseAQI * (100 + dt) * (200 + dh), 20000, 0,
             <<baseAQI, dt, dh>> \in AdvancedBelowTie)

\* calculateAdvancedAQI without Math.min(baseAQI, 500)
calculateAdvancedAQIUnclamped(pm25, temperature, humidity) ==
  LET baseAQI == calculateAQIFromPM25(pm25)
  IN  MathRound(adjustedAQI(baseAQI, temperature, humidity))

calculateAdvancedAQI(pm25, temperature, humidity) ==
  LET baseAQI == calculateAQIFromPM25(pm25)
  IN  MathRound(MathMin(adjustedAQI(baseAQI, temperature, humidity), 50000))

\* the risk level of assessHealthRisk
riskLevel(aqi) ==
  IF Le(aqi, 5000) THEN "good"
  ELSE IF Le(aqi, 10000) THEN "moderate"
  ELSE IF Le(aqi, 15000) THEN "unhealthy"
  ELSE IF Le(aqi, 20000) THEN "very-unhealthy"
  ELSE IF Le(aqi, 30000) THEN "hazardous"
  ELSE "severe"

\* assessHealthRisk(aqi) with pm25 undefined and the default userProfile {}:
\* no personal factor applies, and Math.min of two level names is NaN
\* (the recommendations texts are not modelled)
assessHealthRisk(aqi) ==
  [level |-> riskLevel(aqi), multiplier |-> Scale, adjustedRisk |-> NaN]

\* the categories of getAQICategory, in the order Object.entries lists them
categories ==
  << [key |-> "good",          min |-> 0,     max |-> 5000,  description |-> "Good"],
     [key |-> "moderate",      min |-> 5100,  max |-> 10000, description |-> "Moderate"],
     [key |-> "unhealthy",     min |-> 10100, max |-> 15000,
      description |-> "Unhealthy for Sensitive Groups"],
     [key |-> "veryUnhealthy", min |-> 15100, max |-> 20000, description |-> "Very Unhealthy"],
     [key |-> "hazardous",     min |-> 20100, max |-> 30000, description |-> "Hazardous"],
     [key |-> "severe",        min |-> 30100, max |-> 50000, description |-> "Very Hazardous"] >>

categoryMatches(aqi) ==
  { i \in DOMAIN categories : Ge(aqi, categories[i].min) /\ Le(aqi, categories[i].max) }

\* getAQICategory: the first category whose [min, max] contains aqi, with its
\* key; without a match categories.severe itself, which has no key property
getAQICategory(aqi) ==
  IF categoryMatches(aqi) = {}
  THEN [categories[6] EXCEPT !.key = "undefined"]
  ELSE categories[SetMin(categoryMatches(aqi))]

-----------------------------------------------------------------------------
(* SimpleAQIApp.calculateAQIFromPM25 (src/simple-app.js): the same table,    *)
(* the interpolation written as slope * (pm25 - min) + aqiMin                *)

simpleCalculateAQIFromPM25(pm25) ==
  IF Lt(pm25, 0) THEN 0
  ELSE IF Gt(pm25, 50040) THEN 50000
  ELSE IF pm25Segments(pm25) = {} THEN 0
  ELSE LET breakpoint == aqiBreakpoints[SetMin(pm25Segments(pm25))]
       IN  MathRound(Double((breakpoint.aqiMax - breakpoint.aqiMin) * (pm25 - breakpoint.min),
                            breakpoint.max - breakpoint.min, breakpoint.aqiMin, FALSE))

-----------------------------------------------------------------------------
(* aqi-calculator-worker (src/unnamed/part_004): the copy of the engine the  *)
(* background worker runs                                                    *)

pm25Breakpoints ==
  << [min |-> 0,     max |-> 1200,  aqiMin |-> 0,     aqiMax |-> 5000],
     [min |-> 1210,  max |-> 3540,  aqiMin |-> 5100,  aqiMax |-> 10000],
     [min |-> 3550,  max |-> 5540,  aqiMin |-> 10100, aqiMax |-> 15000],
     [min |-> 5550,  max |-> 15040, aqiMin |-> 15100, aqiMax |-> 20000],
     [min |-> 15050, max |-> 25040, aqiMin |-> 20100, aqiMax |-> 30000],
     [min |-> 25050, max |-> 35040, aqiMin |-> 30100, aqiMax |-> 40000],
     [min |-> 35050, max |-> 50040, aqiMin |-> 40100, aqiMax |-> 50000] >>

workerLinearScale(value, fromMin, fromMax, toMin, toMax) ==
  IF fromMax = fromMin THEN toMin
  ELSE MathRound(Double((value - fromMin) * (toMax - toMin), fromMax - fromMin,
                        toMin, <<value, fromMin, fromMax>> \in DoubleBelowTie))

workerCalculateAQIFromPM25(pm25) ==
  LET accepted == { i \in DOMAIN pm25Breakpoints :
                      Ge(pm25, pm25Breakpoints[i].min) /\ Le(pm25, pm25Breakpoints[i].max) }
  IN  IF Lt(pm25, 0) THEN 0
      ELSE IF Gt(pm25, 50040) THEN 50000
      ELSE IF accepted = {} THEN 0
      ELSE LET breakpoint == pm25Breakpoints[SetMin(accepted)]
           IN  workerLinearScale(pm25, breakpoint.min, breakpoint.max,
                                 breakpoint.aqiMin, breakpoint.aqiMax)

workerCalculatePM25FromAQI(aqi) ==
  LET accepted == { i \in DOMAIN pm25Breakpoints :
                      Ge(aqi, pm25Breakpoints[i].aqiMin) /\ Le(aqi, pm25Breakpoints[i].aqiMax) }
  IN  IF Lt(aqi, 0) THEN 0
      ELSE IF Gt(aqi, 50000) THEN 50040
      ELSE IF accepted = {} THEN 0
      ELSE LET breakpoint == pm25Breakpoints[SetMin(accepted)]
           IN  workerLinearScale(aqi, breakpoint.aqiMin, breakpoint.aqiMax,
                                 breakpoint.min, breakpoint.max)

-----------------------------------------------------------------------------
(* script.js: the legacy calculateAQIFromPM25, an if/else chain on the upper *)
(* bounds, linearScale without rounding and Math.round at the end            *)

scriptLinearScale(value, fromMin, fromMax, toMin, toMax) ==
  Double((value - fromMin) * (toMax - toMin), fromMax - fromMin, toMin,
         <<value, fromMin, fromMax>> \in DoubleBelowTie)

scriptCalculateAQIFromPM25(pm25) ==
  LET aqi ==
        IF Le(pm25, 1200) THEN scriptLinearScale(pm25, 0, 1200, 0, 5000)
        ELSE IF Le(pm25, 3540) THEN scriptLinearScale(pm25, 1210, 3540, 5100, 10000)
        ELSE IF Le(pm25, 5540) THEN scriptLinearScale(pm25, 3550, 5540, 10100, 15000)
        ELSE IF Le(pm25, 15040) THEN scriptLinearScale(pm25, 5550, 15040, 15100, 20000)
        ELSE IF Le(pm25, 25040) THEN scriptLinearScale(pm25, 15050, 25040, 20100, 30000)
        ELSE IF Le(pm25, 50040) THEN scriptLinearScale(pm25, 25050, 50040, 30100, 50000)
        ELSE Double(0, 1, 50000, FALSE)
  IN  MathRound(aqi)

-----------------------------------------------------------------------------
(* AQIApp.searchCity (src/App.js): the reading of the pollution API goes     *)
(* through the calculator into the new application state                     *)

\* DataManager.fetchAQIData: pm25: components.pm2_5 || 0
fetchedPM25(pm2_5) ==
  IF ToNumber(pm2_5) = NaN \/ pm2_5 = 0 THEN 0 ELSE pm2_5

searchCityState(pm2_5) ==
  LET pm25 == fetchedPM25(pm2_5)
      aqiValue == calculateAQIFromPM25(pm25)
      cigarettesValue == calculateCigarettes(aqiValue)
  IN  [currentAQI |-> aqiValue, currentPM25 |-> pm25,
       cigarettesEquivalent |-> cigarettesValue, loading |-> FALSE]

-----------------------------------------------------------------------------
(* SmartSearch (src/modules/DataManager.js): strings                        *)
(* A JavaScript string is a TLA+ string; an absent property (undefined) is  *)
(* the string UndefinedString, which is the text a template literal renders *)
(* for it.  No candidate of the model carries that text as a real value.    *)

UpperCase == "ABCDEFGHIJKLMNOPQRSTUVWXYZ"
LowerCase == "abcdefghijklmnopqrstuvwxyz"

charAt(s, i) == SubSeq(s, i, i)

\* the lower-case letter of every upper-case letter
LowerOf ==
  [ c \in { charAt(UpperCase, i) : i \in 1 .. Len(UpperCase) } |->
      charAt(LowerCase, CHOOSE i \in 1 .. Len(UpperCase) : charAt(UpperCase, i) = c) ]

lowerChar(c) == IF c \in DOMAIN LowerOf THEN LowerOf[c] ELSE c

RECURSIVE toLowerCase(_)
toLowerCase(s) ==
  IF s = "" THEN "" ELSE lowerChar(charAt(s, 1)) \o toLowerCase(SubSeq(s, 2, Len(s)))

\* the white space of the regular expression class \s that the model's strings use
WhiteSpace == {" "}

RECURSIVE trimStart(_)
trimStart(s) ==
  IF s # "" /\ charAt(s, 1) \in WhiteSpace THEN trimStart(SubSeq(s, 2, Len(s))) ELSE s

RECURSIVE trimEnd(_)
trimEnd(s) ==
  IF s # "" /\ charAt(s, Len(s)) \in WhiteSpace THEN trimEnd(SubSeq(s, 1, Len(s) - 1)) ELSE s

trim(s) == trimEnd(trimStart(s))

startsWith(s, prefix) ==
  Len(prefix) <= Len(s) /\ SubSeq(s, 1, Len(prefix)) = prefix

includes(s, part) ==
  \E i \in 0 .. (Len(s) - Len(part)) : SubSeq(s, i + 1, i + Len(part)) = part

\* String.prototype.split with a separator of one or more characters of the class:
\* the pieces between the separator runs, empty pieces at the two ends included
RECURSIVE splitFrom(_, _, _, _, _)
splitFrom(s, separators, i, piece, pieces) ==
  IF i > Len(s) THEN Append(pieces, piece)
  ELSE IF charAt(s, i) \in separators
       THEN IF i > 1 /\ charAt(s, i - 1) \in separators
            THEN splitFrom(s, separators, i + 1, piece, pieces)
            ELSE splitFrom(s, separators, i + 1, "", Append(pieces, piece))
       ELSE splitFrom(s, separators, i + 1, piece \o charAt(s, i), pieces)

\* split(/\s+/)
splitSpaces(s) == splitFrom(s, WhiteSpace, 1, "", <<>>)
\* split(/[\s,]+/)
splitSpacesCommas(s) == splitFrom(s, WhiteSpace \cup {","}, 1, "", <<>>)

-----------------------------------------------------------------------------
(* SmartSearch: similarity.  A score is an exact fraction [num, den] in    *)
(* lowest terms with den > 0.                                               *)

RECURSIVE GCD(_, _)
GCD(a, b) == IF b = 0 THEN a ELSE GCD(b, a % b)

Fraction(num, den) ==
  LET g == GCD(IF num < 0 THEN 0 - num ELSE num, den)
  IN  [num |-> num \div g, den |-> den \div g]

One == Fraction(1, 1)
FracLe(a, b) == a.num * b.den <= b.num * a.den
FracLt(a, b) == a.num * b.den < b.num * a.den
FracMin(a, b) == IF FracLe(a, b) THEN a ELSE b
FracAdd(a, b) == Fraction(a.num * b.den + b.num * a.den, a.den * b.den)
\* the sign of a - b
FracCompare(a, b) ==
  IF FracLt(a, b) THEN -1 ELSE IF FracLt(b, a) THEN 1 ELSE 0
\* Math.abs(a - b) > c
FracFarther(a, b, c) ==
  LET d == a.num * b.den - b.num * a.den
  IN  (IF d < 0 THEN 0 - d ELSE d) * c.den > c.num * a.den * b.den

Min3(a, b, c) == IF a <= b /\ a <= c THEN a ELSE IF b <= c THEN b ELSE c

\* one row of the Levenshtein matrix, cells 0 .. Len(longer), from the row above it
RECURSIVE matrixRow(_, _, _, _)
matrixRow(above, shorterChar, longer, row) ==
  IF Len(row) = Len(longer) + 1 THEN row
  ELSE LET j == Len(row)
           cost == IF shorterChar = charAt(longer, j) THEN 0 ELSE 1
       IN  matrixRow(above, shorterChar, longer,
                     Append(row, Min3(row[j] + 1, above[j + 1] + 1, above[j] + cost)))

RECURSIVE matrixRows(_, _, _, _)
matrixRows(shorter, longer, i, above) ==
  IF i > Len(shorter) THEN above
  ELSE matrixRows(shorter, longer, i + 1,
                  matrixRow(above, charAt(shorter, i), longer, <<i>>))

levenshtein(shorter, longer) ==
  matrixRows(shorter, longer, 1, [j \in 1 .. Len(longer) + 1 |-> j - 1])[Len(longer) + 1]

Boost == Fraction(2, 10)

similarityOf(distance, maxLength) == Fraction(maxLength - distance, maxLength)

\* a variant to compare with: the similarity without the boost of line 526
calculateSimilarityWithoutBoost(str1, str2) ==
  IF str1 = str2 THEN One
  ELSE LET longer == IF Len(str1) > Len(str2) THEN str1 ELSE str2
           shorter == IF Len(str1) > Len(str2) THEN str2 ELSE str1
       IN  similarityOf(levenshtein(shorter, longer), Len(longer))

calculateSimilarity(str1, str2) ==
  IF str1 = str2 THEN One
  ELSE LET longer == IF Len(str1) > Len(str2) THEN str1 ELSE str2
           shorter == IF Len(str1) > Len(str2) THEN str2 ELSE str1
           similarity == similarityOf(levenshtein(shorter, longer), Len(longer))
       IN  IF includes(longer, shorter)
           THEN FracMin(FracAdd(similarity, Boost), One)
           ELSE similarity

-----------------------------------------------------------------------------
(* SmartSearch: candidates, index and popularity *)

City(name, country, state, displayName) ==
  [name |-> name, country |-> country, state |-> state, displayName |-> displayName]

\* the candidates of the model (CityCandidate: name, country, state?, displayName?)
London == City("London", "GB", UndefinedString, "London, GB")
NewYork == City("New York", "US", "New York", "New York, New York, US")
Parris == City("Parris", "US", UndefinedString, UndefinedString)
StParis == City("St Paris", "US", UndefinedString, UndefinedString)
\* a candidate that does not follow the City Candidate model
Nameless == City(UndefinedString, "GB", UndefinedString, UndefinedString)

Candidates == {London, NewYork, Parris, StParis, Nameless}

\* a value of `x || y`, `if (x)`: neither undefined nor the empty string
Truthy(s) == s # UndefinedString /\ s # ""

Popular(name, country) == [name |-> name, country |-> country]

getPopularCities ==
  << Popular("London", "GB"), Popular("New York", "US"), Popular("Tokyo", "JP"),
     Popular("Paris", "FR"), Popular("Sydney", "AU"), Popular("Berlin", "DE"),
     Popular("Singapore", "SG"), Popular("Mumbai", "IN"), Popular("Beijing", "CN"),
     Popular("Los Angeles", "US"), Popular("Chicago", "US"), Popular("Toronto", "CA"),
     Popular("Amsterdam", "NL"), Popular("Barcelona", "ES"), Popular("Rome", "IT"),
     Popular("Vienna", "AT"), Popular("Prague", "CZ"), Popular("Bangkok", "TH"),
     Popular("Istanbul", "TR"), Popular("Moscow", "RU") >>

\* city.displayName || city.name
fullNameOf(city) == IF Truthy(city.displayName) THEN city.displayName ELSE city.name

\* (city.displayName || city.name).toLowerCase() is a TypeError on undefined
fullNameThrows(city) == fullNameOf(city) = UndefinedString

cityNameOf(city) == toLowerCase(fullNameOf(city))

abbreviations(city) ==
  (IF city.name = "New York" THEN {"nyc"} ELSE {}) \cup
  (IF city.name = "Los Angeles" THEN {"la"} ELSE {}) \cup
  (IF city.name = "London" THEN {"uk"} ELSE {}) \cup
  (IF city.name = "Paris" THEN {"france"} ELSE {})

extractSearchTerms(city) ==
  LET fullName == cityNameOf(city)
      words == splitSpacesCommas(fullName)
  IN  {fullName}
      \cup { words[w] : w \in { v \in 1 .. Len(words) : Len(words[v]) > 2 } }
      \cup (IF Truthy(city.country) THEN {toLowerCase(city.country)} ELSE {})
      \cup (IF Truthy(city.state) THEN {toLowerCase(city.state)} ELSE {})
      \cup abbreviations(city)

\* the lower-cased full name and the search terms of every candidate of the model
CityNames == [ city \in Candidates |-> cityNameOf(city) ]
SearchTerms == [ city \in Candidates |-> extractSearchTerms(city) ]

RECURSIVE ascending(_)
\* the numbers of a set in ascending order
ascending(S) ==
  IF S = {} THEN <<>>
  ELSE LET least == CHOOSE x \in S : \A y \in S : x <= y
       IN  <<least>> \o ascending(S \ {least})

\* the Map built by the first `count` rounds of the forEach of buildSearchIndex:
\* term -> positions (from 0) of the candidates that yield it, in list order
indexOfFirst(list, count) ==
  LET terms == [ i \in 1 .. count |-> SearchTerms[list[i]] ]
  IN  [ term \in UNION { terms[i] : i \in 1 .. count } |->
          ascending({ i - 1 : i \in { k \in 1 .. count : term \in terms[k] } }) ]

\* the number of candidates buildSearchIndex indexes before extractSearchTerms throws
indexedCount(list) ==
  IF \E i \in 1 .. Len(list) : fullNameThrows(list[i])
  THEN (CHOOSE i \in 1 .. Len(list) :
          fullNameThrows(list[i]) /\ \A k \in 1 .. (i - 1) : ~fullNameThrows(list[k])) - 1
  ELSE Len(list)

buildSearchIndexThrows(list) == indexedCount(list) < Len(list)

\* searchIndex.clear() and then the rounds of the forEach, up to the first TypeError
buildSearchIndex(list) == indexOfFirst(list, indexedCount(list))

\* `${city.name}_${city.country}`.toLowerCase()
historyKey(city) == toLowerCase(city.name \o "_" \o city.country)

\* searchHistory.get(key) || 0
historyGet(history, key) == IF key \in DOMAIN history THEN history[key] ELSE 0

historySet(history, key, count) ==
  [ k \in DOMAIN history \cup {key} |-> IF k = key THEN count ELSE history[k] ]

\* findIndex over popularCities: the positions (from 1) whose name and country match
popularMatches(city) ==
  { i \in 1 .. Len(getPopularCities) :
      /\ toLowerCase(getPopularCities[i].name) = toLowerCase(city.name)
      /\ toLowerCase(getPopularCities[i].country) = toLowerCase(city.country) }

\* a variant to compare with: the popular list read without the guard on state
getCityPopularityThrowsWithoutState(city) ==
  \/ city.name = UndefinedString
  \/ city.state = UndefinedString
  \/ /\ city.country = UndefinedString
     /\ \E i \in 1 .. Len(getPopularCities) :
          toLowerCase(getPopularCities[i].name) = toLowerCase(city.name)

\* city.name.toLowerCase() on an absent name, or city.country.toLowerCase() on an
\* absent country once a popular name has matched, is a TypeError
getCityPopularityThrows(city) ==
  \/ city.name = UndefinedString
  \/ /\ city.country = UndefinedString
     /\ \E i \in 1 .. Len(getPopularCities) :
          toLowerCase(getPopularCities[i].name) = toLowerCase(city.name)

getCityPopularity(city, history) ==
  IF popularMatches(city) # {}
  THEN Len(getPopularCities) - ((CHOOSE i \in popularMatches(city) :
                                   \A k \in popularMatches(city) : i <= k) - 1)
  ELSE historyGet(history, historyKey(city))

recordSearch(city, history) ==
  historySet(history, historyKey(city), historyGet(history, historyKey(city)) + 1)

-----------------------------------------------------------------------------
(* SmartSearch: fuzzySearch *)

DefaultThreshold == Fraction(6, 10)
AutocompleteThreshold == Fraction(3, 10)
WordThreshold == Fraction(8, 10)
ScoreTolerance == Fraction(1, 100)
AutocompleteLimit == 5

Throw == [completion |-> "throw", value |-> "TypeError"]

SearchResult(city, score, matchType) ==
  [city |-> city, score |-> score, matchType |-> matchType]

\* if (!query || query.length < 2) return [];
rejectsQuery(query) == query = "" \/ Len(query) < 2

queryLowerOf(query) == trim(toLowerCase(query))

prefixMatches(list, queryLower) ==
  { i \in 1 .. Len(list) : startsWith(CityNames[list[i]], queryLower) }

fuzzyMatches(list, queryLower, threshold) ==
  { i \in (1 .. Len(list)) \ prefixMatches(list, queryLower) :
      FracLe(threshold, calculateSimilarity(queryLower, CityNames[list[i]])) }

\* wordMatches of one candidate: the pairs of a query word and a city word
\* with a similarity above 0.8
wordMatches(city, queryWords) ==
  LET cityWords == splitSpacesCommas(CityNames[city])
  IN  Cardinality({ pair \in (1 .. Len(queryWords)) \X (1 .. Len(cityWords)) :
                      FracLt(WordThreshold,
                             calculateSimilarity(queryWords[pair[1]], cityWords[pair[2]])) })

wordScore(city, queryWords) == Fraction(wordMatches(city, queryWords), Len(queryWords))

wordMatched(list, queryWords) ==
  { i \in 1 .. Len(list) : wordMatches(list[i], queryWords) > 0 }

\* a variant to compare with: the word pass run after every search
wordPassAlwaysRuns(list, queryLower, threshold) == TRUE

\* the word pass runs only `if (results.size === 0)`
wordPassRuns(list, queryLower, threshold) ==
  prefixMatches(list, queryLower) \cup fuzzyMatches(list, queryLower, threshold) = {}

\* Array.from(results.values()): the entries of the Map in insertion order
resultValues(list, queryLower, threshold) ==
  LET prefixes == ascending(prefixMatches(list, queryLower))
      fuzzies == ascending(fuzzyMatches(list, queryLower, threshold))
      queryWords == splitSpaces(queryLower)
      words == ascending(wordMatched(list, queryWords))
  IN  IF wordPassRuns(list, queryLower, threshold)
      THEN [ k \in 1 .. Len(words) |->
               SearchResult(list[words[k]], wordScore(list[words[k]], queryWords), "word") ]
      ELSE [ k \in 1 .. Len(prefixes) |-> SearchResult(list[prefixes[k]], One, "prefix") ]
           \o [ k \in 1 .. Len(fuzzies) |->
                  SearchResult(list[fuzzies[k]],
                               calculateSimilarity(queryLower, CityNames[list[fuzzies[k]]]),
                               "fuzzy") ]

typePriority(matchType) ==
  CASE matchType = "prefix" -> 3 [] matchType = "fuzzy" -> 2
    [] matchType = "word" -> 1 [] OTHER -> 0

\* the comparator reaches getCityPopularity only on its third criterion
reachesPopularity(a, b) ==
  /\ ~FracFarther(a.score, b.score, ScoreTolerance)
  /\ typePriority(a.matchType) = typePriority(b.matchType)

compareThrows(a, b) ==
  reachesPopularity(a, b)
    /\ (getCityPopularityThrows(a.city) \/ getCityPopularityThrows(b.city))

\* the comparator of the sort: negative when a goes first, positive when b goes first
compareResults(a, b, history) ==
  IF FracFarther(a.score, b.score, ScoreTolerance)
  THEN FracCompare(b.score, a.score)
  ELSE IF typePriority(a.matchType) # typePriority(b.matchType)
       THEN typePriority(b.matchType) - typePriority(a.matchType)
       ELSE getCityPopularity(b.city, history) - getCityPopularity(a.city, history)

\* the position at which a stable insertion places `result` in `sorted`: behind the
\* last element that the comparator does not put after it; -1 when a comparison throws
RECURSIVE insertPosition(_, _, _, _)
insertPosition(sorted, result, history, j) ==
  IF j = 0 THEN 0
  ELSE IF compareThrows(sorted[j], result) THEN -1
       ELSE IF compareResults(sorted[j], result, history) > 0
            THEN insertPosition(sorted, result, history, j - 1)
            ELSE j

\* Array.prototype.sort with the comparator (a stable sort); Throw when a comparison throws
RECURSIVE sortFrom(_, _, _, _)
sortFrom(values, history, k, sorted) ==
  IF k > Len(values) THEN Return(sorted)
  ELSE LET j == insertPosition(sorted, values[k], history, Len(sorted))
       IN  IF j < 0 THEN Throw
           ELSE sortFrom(values, history, k + 1,
                         SubSeq(sorted, 1, j) \o <<values[k]>> \o SubSeq(sorted, j + 1, Len(sorted)))

sortResults(values, history) == sortFrom(values, history, 1, <<>>)

fuzzySearch(list, history, query, threshold) ==
  IF rejectsQuery(query) THEN Return(<<>>)
  ELSE IF \E i \in 1 .. Len(list) : fullNameThrows(list[i]) THEN Throw
       ELSE sortResults(resultValues(list, queryLowerOf(query), threshold), history)

Suggestion(result) ==
  [text |-> fullNameOf(result.city), city |-> result.city, score |-> result.score]

getAutocompleteSuggestions(list, history, partialQuery) ==
  IF Len(partialQuery) < 2 THEN Return(<<>>)
  ELSE LET results == fuzzySearch(list, history, partialQuery, AutocompleteThreshold)
       IN  IF results.completion = "throw" THEN Throw
           ELSE Return([ k \in 1 .. SetMin({AutocompleteLimit, Len(results.value)}) |->
                           Suggestion(results.value[k]) ])

-----------------------------------------------------------------------------
(* StateManager (src/unnamed/part_001) and its client AQIApp (src/App.js).   *)
(* An object is a record of its properties.  An array is held by reference:  *)
(* the property is a key of `arrays`, so that two objects can share one      *)
(* array, as the shallow copies of the source do.  A deep copy holds the     *)
(* elements themselves.                                                      *)

maxHistorySize == 10

\* new StateManager({currentCity: null, currentAQI: null, currentPM25: null,
\* searchHistory: [], ...}) (App.js): the properties followed here
initialState(reference) ==
  [currentAQI |-> Null, currentPM25 |-> Null, searchHistory |-> reference]

\* a reference that no array in reach carries
freshReference(heap) ==
  CHOOSE reference \in 1..(Cardinality(DOMAIN heap) + 1) : reference \notin DOMAIN heap

\* the arrays still in reach of the given references
inReach(heap, references) == [reference \in references |-> heap[reference]]

\* the object with the elements of its array in place of the reference
contents(object, heap) ==
  [object EXCEPT !.searchHistory = heap[object.searchHistory]]

\* JSON.parse(JSON.stringify(value)) of the value of a property: NaN is written
\* as null; a property that is undefined is left out and reads as undefined
jsonValue(key, value) ==
  IF key # "searchHistory" /\ value = NaN THEN Null ELSE value

\* JSON.parse(JSON.stringify(object)): the copy holds the elements of the array
deepCopy(object, heap) ==
  [key \in DOMAIN object |-> jsonValue(key, contents(object, heap)[key])]

\* { ...this.state }: the copy shares every value, the array included
getState(object) == object

\* the updates carry no nested plain object, so every key is assigned
applyUpdates(object, updates) ==
  [key \in DOMAIN object \cup DOMAIN updates |->
     IF key \in DOMAIN updates THEN updates[key] ELSE object[key]]

Invalid(message) == [completion |-> "throw", value |-> message]

\* a variant to compare with: the validation of the AQI alone
validateStateOfAQIOnly(newState) ==
  IF newState.currentAQI # Null
       /\ (Lt(newState.currentAQI, 0) \/ Gt(newState.currentAQI, 100000))
  THEN Invalid("Invalid AQI value")
  ELSE Normal

validateState(newState) ==
  IF newState.currentAQI # Null
       /\ (Lt(newState.currentAQI, 0) \/ Gt(newState.currentAQI, 100000))
  THEN Invalid("Invalid AQI value")
  ELSE IF newState.currentPM25 # Null /\ Lt(newState.currentPM25, 0)
       THEN Invalid("Invalid PM2.5 value")
       ELSE Normal

\* the keys whose JSON text differs, each with its two values; both arguments
\* are given with the elements of their arrays
calculateChanges(oldState, newState) ==
  [key \in {k \in DOMAIN newState :
               jsonValue(k, oldState[k]) # jsonValue(k, newState[k])} |->
     [previous |-> oldState[key], current |-> newState[key]]]

\* the reference of an object that holds no array
NoReference == 0

\* no object has been returned by getState() yet
NoSnapshot == initialState(NoReference)

\* the references a client or the store holds after the step
reachable == {currentState'.searchHistory, snapshot'.searchHistory} \ {NoReference}

\* setState(updates), called while isUpdating is `updating` and the arrays are
\* `heap`; an array among the updates is already one of `heap`
setState(updating, heap, updates) ==
  IF updating
  THEN /\ UNCHANGED <<currentState, stateHistory>>
       /\ isUpdating' = updating
       /\ arrays' = inReach(heap, reachable)
       /\ notified' = <<>>
       /\ ret' = Normal
  ELSE LET previousState == deepCopy(currentState, heap)
           newState == applyUpdates(currentState, updates)
           changes == calculateChanges(previousState, contents(newState, heap))
           pushed == Append(stateHistory, previousState)
       IN  IF validateState(newState) # Normal
           THEN /\ UNCHANGED <<currentState, stateHistory>>
                /\ isUpdating' = FALSE
                /\ arrays' = inReach(heap, reachable)
                /\ notified' = <<>>
                /\ ret' = validateState(newState)
           ELSE /\ currentState' = newState
                /\ stateHistory' =
                     IF Len(pushed) > maxHistorySize THEN Tail(pushed) ELSE pushed
                /\ isUpdating' = FALSE
                /\ arrays' = inReach(heap, reachable)
                /\ notified' = IF DOMAIN changes # {} THEN <<changes>> ELSE <<>>
                /\ ret' = Normal

\* the variables of the store where no store is constructed
NoStore ==
  /\ currentState = initialState(NoReference)
  /\ arrays = EmptyMap
  /\ stateHistory = <<>>
  /\ isUpdating = FALSE
  /\ snapshot = NoSnapshot
  /\ notified = <<>>
  /\ calls = 0

-----------------------------------------------------------------------------
(* The calls *)

DefaultTemperature == 2000
DefaultHumidity == 5000

Call(kind, pm25, aqi, temperature, humidity) ==
  [kind |-> kind, pm25 |-> pm25, aqi |-> aqi,
   temperature |-> temperature, humidity |-> humidity]

PM25Inputs == ((0 - NegRange) .. MaxPM25) \cup {100000, NaN, Undefined}

AQIInputs ==
  { Half * k : k \in (0 - NegAQISteps) .. MaxAQISteps } \cup {NaN, Undefined}

AdvancedPM25Inputs ==
  { p \in 0 .. MaxPM25 : p % AdvancedStep = 0 } \cup {0 - NegRange, 3540, 25040, NaN}

Temperatures ==
  { Scale * t : t \in MinTemperature .. MaxTemperature } \cup {DefaultTemperature}

Humidities ==
  { Scale * h : h \in MinHumidity .. MaxHumidity } \cup {DefaultHumidity}

PM25Calls ==
  { Call("pm25", p, 0, DefaultTemperature, DefaultHumidity) : p \in PM25Inputs }

AQICalls ==
  { Call("aqi", 0, a, DefaultTemperature, DefaultHumidity) : a \in AQIInputs }

AdvancedCalls ==
  { Call("advanced", p, 0, t, h) :
      p \in AdvancedPM25Inputs, t \in Temperatures, h \in Humidities }

Init ==
  /\ input \in PM25Calls \cup AQICalls \cup AdvancedCalls
  /\ op = "none"
  /\ ret = NoReturn
  /\ cities = <<>>
  /\ searchIndex = EmptyMap
  /\ searchHistory = EmptyMap
  /\ NoStore
  /\ NoServices

\* one call of a function of the given kind of arguments
Apply(kind, name, value) ==
  /\ op = "none"
  /\ input.kind = kind
  /\ op' = name
  /\ ret' = Return(value)
  /\ UNCHANGED <<input, searchVars, stateVars, serviceVars>>

CallCalculateAQIFromPM25 ==
  Apply("pm25", "calculateAQIFromPM25", calculateAQIFromPM25(input.pm25))

CallSimpleCalculateAQIFromPM25 ==
  Apply("pm25", "simpleCalculateAQIFromPM25", simpleCalculateAQIFromPM25(input.pm25))

CallScriptCalculateAQIFromPM25 ==
  Apply("pm25", "scriptCalculateAQIFromPM25", scriptCalculateAQIFromPM25(input.pm25))

CallWorkerCalculateAQIFromPM25 ==
  Apply("pm25", "workerCalculateAQIFromPM25", workerCalculateAQIFromPM25(input.pm25))

CallWorkerCalculatePM25FromAQI ==
  Apply("aqi", "workerCalculatePM25FromAQI", workerCalculatePM25FromAQI(input.aqi))

SearchCity ==
  Apply("pm25", "searchCity", searchCityState(input.pm25))

CallCalculatePM25FromAQI ==
  Apply("aqi", "calculatePM25FromAQI", calculatePM25FromAQI(input.aqi))

CallCalculateCigarettes ==
  Apply("aqi", "calculateCigarettes", calculateCigarettes(input.aqi))

CallAssessHealthRisk ==
  Apply("aqi", "assessHealthRisk", assessHealthRisk(input.aqi))

CallGetAQICategory ==
  Apply("aqi", "getAQICategory", getAQICategory(input.aqi))

CallCalculateAdvancedAQI ==
  Apply("advanced", "calculateAdvancedAQI",
        calculateAdvancedAQI(input.pm25, input.temperature, input.humidity))

Next ==
  \/ CallCalculateAQIFromPM25
  \/ CallSimpleCalculateAQIFromPM25
  \/ CallScriptCalculateAQIFromPM25
  \/ CallWorkerCalculateAQIFromPM25
  \/ CallWorkerCalculatePM25FromAQI
  \/ SearchCity
  \/ CallCalculatePM25FromAQI
  \/ CallCalculateCigarettes
  \/ CallAssessHealthRisk
  \/ CallGetAQICategory
  \/ CallCalculateAdvancedAQI

Spec == Init /\ [][Next]_vars

-----------------------------------------------------------------------------
(* SmartSearch: the calls *)

\* name and country present, state and displayName optional
WellFormed(city) == Truthy(city.name) /\ Truthy(city.country)

\* the lists of at most MaxCities different candidates
CityLists ==
  UNION { { list \in [1 .. n -> Candidates] :
              \A i, j \in 1 .. n : i # j => list[i] # list[j] } : n \in 0 .. MaxCities }

Queries == {"l", "  ", "Lon", "xyzzy", "paris", "york", "lond0n"}

RecordedCities == {London, StParis}

\* the argument of importSearchData: { history?, cities? }
ImportData(hasHistory, history, hasCities, list) ==
  [hasHistory |-> hasHistory, history |-> history, hasCities |-> hasCities, cities |-> list]

ImportedData ==
  { ImportData(TRUE, historySet(EmptyMap, historyKey(StParis), 1), FALSE, <<>>),
    ImportData(FALSE, EmptyMap, TRUE, <<London>>),
    ImportData(TRUE, EmptyMap, TRUE, <<StParis, Parris>>) }

\* new SmartSearch([]) (SearchComponent.js)
InitSearch ==
  /\ input = [kind |-> "cities", cities |-> <<>>]
  /\ op = "SmartSearch"
  /\ ret = NoReturn
  /\ cities = <<>>
  /\ searchIndex = buildSearchIndex(<<>>)
  /\ searchHistory = EmptyMap
  /\ NoStore
  /\ NoServices

\* a variant to compare with: a search that records its first result
FuzzySearchRecordingTheFirstResult ==
  \E query \in Queries :
    LET results == fuzzySearch(cities, searchHistory, query, DefaultThreshold)
    IN  /\ input' = [kind |-> "query", query |-> query]
        /\ op' = "fuzzySearch"
        /\ ret' = results
        /\ searchHistory' =
             IF results.completion = "return" /\ results.value # <<>>
                  /\ historyGet(searchHistory, historyKey(results.value[1].city)) < MaxRecorded
             THEN recordSearch(results.value[1].city, searchHistory)
             ELSE searchHistory
        /\ UNCHANGED <<cities, searchIndex, stateVars, serviceVars>>

FuzzySearch ==
  \E query \in Queries :
    /\ input' = [kind |-> "query", query |-> query]
    /\ op' = "fuzzySearch"
    /\ ret' = fuzzySearch(cities, searchHistory, query, DefaultThreshold)
    /\ UNCHANGED <<searchVars, stateVars, serviceVars>>

GetAutocompleteSuggestions ==
  \E partialQuery \in Queries :
    /\ input' = [kind |-> "query", query |-> partialQuery]
    /\ op' = "getAutocompleteSuggestions"
    /\ ret' = getAutocompleteSuggestions(cities, searchHistory, partialQuery)
    /\ UNCHANGED <<searchVars, stateVars, serviceVars>>

\* this.cities = cities; this.buildSearchIndex();
updateCities(list) ==
  /\ cities' = list
  /\ searchIndex' = buildSearchIndex(list)
  /\ ret' = IF buildSearchIndexThrows(list) THEN Throw ELSE Normal

UpdateCities ==
  \E list \in CityLists :
    /\ input' = [kind |-> "cities", cities |-> list]
    /\ op' = "updateCities"
    /\ updateCities(list)
    /\ UNCHANGED <<searchHistory, stateVars, serviceVars>>

RecordSearch ==
  \E city \in RecordedCities :
    /\ historyGet(searchHistory, historyKey(city)) < MaxRecorded
    /\ input' = [kind |-> "city", city |-> city]
    /\ op' = "recordSearch"
    /\ searchHistory' = recordSearch(city, searchHistory)
    /\ ret' = Normal
    /\ UNCHANGED <<cities, searchIndex, stateVars, serviceVars>>

ImportSearchData ==
  \E data \in ImportedData :
    /\ input' = [kind |-> "data", data |-> data]
    /\ op' = "importSearchData"
    /\ UNCHANGED <<stateVars, serviceVars>>
    /\ searchHistory' = IF data.hasHistory THEN data.history ELSE searchHistory
    /\ IF data.hasCities
       THEN updateCities(data.cities)
       ELSE /\ ret' = Normal
            /\ UNCHANGED <<cities, searchIndex>>

NextSearch ==
  \/ FuzzySearch
  \/ GetAutocompleteSuggestions
  \/ UpdateCities
  \/ RecordSearch
  \/ ImportSearchData

SpecSearch == InitSearch /\ [][NextSearch]_vars

-----------------------------------------------------------------------------
(* StateManager: the calls of the store and of its clients *)

\* the updates a caller passes to setState and batchUpdate: a valid and an
\* invalid AQI, an AQI that is not a number, a valid and an invalid PM2.5
\* concentration
Updates ==
  { [currentAQI |-> 5000], [currentAQI |-> 150000], [currentAQI |-> NaN],
    [currentPM25 |-> 1200], [currentPM25 |-> -100],
    [currentAQI |-> 5000, currentPM25 |-> 1200] }

\* the city data searchCity hands to updateSearchHistory
CityData == { [name |-> "London", country |-> "GB"], [name |-> "Paris", country |-> "FR"] }

\* { ...cityData, timestamp: Date.now() }; the clock of the model advances with
\* every call, and Date.now() of a call is calls + 1
HistoryEntry(cityData, now) ==
  [name |-> cityData.name, country |-> cityData.country, timestamp |-> now]

\* this.state = new StateManager({...}) (App.js)
InitState ==
  /\ input = [kind |-> "state"]
  /\ op = "StateManager"
  /\ ret = NoReturn
  /\ cities = <<>>
  /\ searchIndex = EmptyMap
  /\ searchHistory = EmptyMap
  /\ currentState = initialState(1)
  /\ arrays = [reference \in {1} |-> <<>>]
  /\ stateHistory = <<>>
  /\ isUpdating = FALSE
  /\ snapshot = NoSnapshot
  /\ notified = <<>>
  /\ calls = 0
  /\ NoServices

\* one more call on the store
Called(name, arguments) ==
  /\ calls < MaxCalls
  /\ calls' = calls + 1
  /\ op' = name
  /\ input' = arguments
  /\ UNCHANGED <<searchVars, serviceVars>>

SetState ==
  \E updates \in Updates :
    /\ Called("setState", [kind |-> "updates", updates |-> updates])
    /\ UNCHANGED snapshot
    /\ setState(isUpdating, arrays, updates)

\* batchUpdate sets isUpdating and then calls setState, which finds it set
BatchUpdate ==
  \E updates \in Updates :
    /\ Called("batchUpdate", [kind |-> "updates", updates |-> updates])
    /\ UNCHANGED snapshot
    /\ IF isUpdating
       THEN /\ UNCHANGED <<currentState, arrays, stateHistory, isUpdating>>
            /\ notified' = <<>>
            /\ ret' = Normal
       ELSE setState(TRUE, arrays, updates)

Undo ==
  /\ Called("undo", [kind |-> "none"])
  /\ UNCHANGED <<isUpdating, snapshot>>
  /\ IF stateHistory = <<>>
     THEN /\ UNCHANGED <<currentState, arrays, stateHistory>>
          /\ notified' = <<>>
          /\ ret' = Return(FALSE)
     ELSE LET previousState == stateHistory[Len(stateHistory)]
              reference == freshReference(arrays)
              heap == [r \in DOMAIN arrays \cup {reference} |->
                         IF r = reference THEN previousState.searchHistory
                         ELSE arrays[r]]
          IN  /\ currentState' = [previousState EXCEPT !.searchHistory = reference]
              /\ stateHistory' = SubSeq(stateHistory, 1, Len(stateHistory) - 1)
              /\ arrays' = inReach(heap, reachable)
              /\ notified' =
                   <<calculateChanges(contents(currentState, arrays), previousState)>>
              /\ ret' = Return(TRUE)

\* reset(initialState) with a new object of the properties of the constructor
Reset ==
  LET reference == freshReference(arrays)
      heap == [r \in DOMAIN arrays \cup {reference} |->
                 IF r = reference THEN <<>> ELSE arrays[r]]
  IN  /\ Called("reset", [kind |-> "none"])
      /\ UNCHANGED <<isUpdating, snapshot>>
      /\ currentState' = getState(initialState(reference))
      /\ stateHistory' = <<>>
      /\ arrays' = inReach(heap, reachable)
      /\ notified' = <<EmptyMap>>
      /\ ret' = Normal

\* a client keeps the object getState() returns
GetState ==
  /\ snapshot # getState(currentState)
  /\ op' = "getState"
  /\ input' = [kind |-> "none"]
  /\ snapshot' = getState(currentState)
  /\ UNCHANGED <<searchVars, serviceVars, currentState, stateHistory, isUpdating, calls>>
  /\ arrays' = inReach(arrays, reachable)
  /\ notified' = <<>>
  /\ ret' = Return(snapshot')

\* the client assigns a property of the object it keeps
AssignProperty ==
  \E value \in {4200} :
    /\ snapshot # NoSnapshot
    /\ snapshot.currentAQI # value
    /\ op' = "assign"
    /\ input' = [kind |-> "value", value |-> value]
    /\ snapshot' = [snapshot EXCEPT !.currentAQI = value]
    /\ notified' = <<>>
    /\ ret' = Normal
    /\ UNCHANGED <<searchVars, serviceVars, currentState, arrays, stateHistory, isUpdating, calls>>

\* the array after the findIndex, the splice and the unshift of
\* updateSearchHistory; positions count from 1, and 0 stands for "not found"
moveToFront(elements, cityData, now) ==
  LET found == { i \in 1..Len(elements) :
                   /\ elements[i].name = cityData.name
                   /\ elements[i].country = cityData.country }
      existingIndex == IF found = {} THEN 0 ELSE SetMin(found)
      spliced == IF existingIndex > 0
                 THEN SubSeq(elements, 1, existingIndex - 1)
                        \o SubSeq(elements, existingIndex + 1, Len(elements))
                 ELSE elements
  IN  <<HistoryEntry(cityData, now)>> \o spliced

\* the client works on the array of the object it keeps, as updateSearchHistory
\* does on the array of getState()
UnshiftHistory ==
  \E cityData \in CityData :
    /\ snapshot # NoSnapshot
    /\ calls < MaxCalls
    /\ calls' = calls + 1
    /\ op' = "unshift"
    /\ input' = [kind |-> "cityData", cityData |-> cityData]
    /\ arrays' = [arrays EXCEPT ![snapshot.searchHistory] =
                    <<HistoryEntry(cityData, calls + 1)>> \o @]
    /\ notified' = <<>>
    /\ ret' = Normal
    /\ UNCHANGED <<searchVars, serviceVars, currentState, stateHistory, isUpdating, snapshot>>

\* AQIApp.updateSearchHistory(cityData)
UpdateSearchHistory ==
  \E cityData \in CityData :
    LET history == getState(currentState).searchHistory
        moved == moveToFront(arrays[history], cityData, calls + 1)
        \* history.slice(0, 10), a new array
        trimmedHistory == freshReference(arrays)
        heap == [r \in DOMAIN arrays \cup {trimmedHistory} |->
                   IF r = trimmedHistory
                   THEN SubSeq(moved, 1, IF Len(moved) < 10 THEN Len(moved) ELSE 10)
                   ELSE IF r = history THEN moved ELSE arrays[r]]
    IN  /\ Called("updateSearchHistory", [kind |-> "cityData", cityData |-> cityData])
        /\ UNCHANGED snapshot
        /\ setState(isUpdating, heap, [searchHistory |-> trimmedHistory])

NextState ==
  \/ SetState
  \/ BatchUpdate
  \/ Undo
  \/ Reset
  \/ GetState
  \/ AssignProperty
  \/ UnshiftHistory
  \/ UpdateSearchHistory

SpecState == InitState /\ [][NextState]_vars

-----------------------------------------------------------------------------
(* The service worker (src/sw.js): handleApiRequest, network first, and the   *)
(* periodic cleanup of the caches.  A request is named by the path of its URL *)
(* on api.openweathermap.org; a response is its status and its Date header.   *)

\* CACHE_EXPIRY.api: ten minutes
ApiExpiry == 600000

\* the clock advances by half the expiry time at a time
TickLength == ApiExpiry \div 2

\* a response without Date header
NoDate == -1

Response(status, date, offline) ==
  [status |-> status, date |-> date, offline |-> offline]

\* Response.ok
ok(response) == response.status >= 200 /\ response.status <= 299

ApiRequests == {"/data/2.5/air_pollution", "/geo/1.0/direct"}

\* what fetch(request) does: it resolves with a response of the server (with
\* or without Date header, of ok status or not) or it rejects
NetworkOutcomes == {"ok", "okWithoutDate", "serverError", "failed"}

networkResponse(outcome) ==
  Response(IF outcome = "serverError" THEN 500 ELSE 200,
           IF outcome = "okWithoutDate" THEN NoDate ELSE clock, FALSE)

\* createOfflineResponse({message, offline: true})
createOfflineResponse == Response(200, NoDate, TRUE)

\* map.set(key, value)
mapSet(map, key, value) ==
  [k \in DOMAIN map \cup {key} |-> IF k = key THEN value ELSE map[k]]

\* age < maxAge, a response without Date header being fresh
isCacheFresh(response, maxAge) ==
  response.date = NoDate \/ clock - response.date < maxAge

InitWorker ==
  /\ input = [kind |-> "worker"]
  /\ op = "serviceWorker"
  /\ ret = NoReturn
  /\ cities = <<>>
  /\ searchIndex = EmptyMap
  /\ searchHistory = EmptyMap
  /\ NoStore
  /\ NoServices

\* the fetch event of a GET request to api.openweathermap.org
HandleApiRequest ==
  \E request \in ApiRequests, outcome \in NetworkOutcomes :
    /\ input' = [kind |-> "request", request |-> request, outcome |-> outcome]
    /\ op' = "handleApiRequest"
    /\ outcome \in {"ok", "okWithoutDate"} => Cardinality(pendingPuts) < MaxPending
    /\ IF outcome # "failed"
       THEN \* cache.put is called and not awaited
            /\ pendingPuts' =
                 IF ok(networkResponse(outcome))
                 THEN pendingPuts \cup {[request |-> request,
                                         response |-> networkResponse(outcome)]}
                 ELSE pendingPuts
            /\ answered' =
                 IF ok(networkResponse(outcome))
                 THEN answered \cup {request}
                 ELSE answered
            /\ ret' = Return(networkResponse(outcome))
       ELSE /\ UNCHANGED <<pendingPuts, answered>>
            /\ ret' = IF request \in DOMAIN apiCache
                      THEN Return(apiCache[request])
                      ELSE IF includes(request, "air_pollution")
                           THEN Return(createOfflineResponse)
                           ELSE Throw
    /\ UNCHANGED <<apiCache, clock, besidesWorker>>

\* a cache.put of handleApiRequest settles
SettlePut ==
  \E put \in pendingPuts :
    /\ input' = [kind |-> "put", request |-> put.request]
    /\ op' = "put"
    /\ apiCache' = mapSet(apiCache, put.request, put.response)
    /\ pendingPuts' = pendingPuts \ {put}
    /\ ret' = Normal
    /\ UNCHANGED <<answered, clock, besidesWorker>>

\* the periodicsync event 'cache-cleanup'
CleanupExpiredCache ==
  /\ input' = [kind |-> "none"]
  /\ op' = "cleanupExpiredCache"
  /\ apiCache' =
       [request \in {r \in DOMAIN apiCache : isCacheFresh(apiCache[r], ApiExpiry)} |->
          apiCache[request]]
  /\ ret' = Normal
  /\ UNCHANGED <<pendingPuts, answered, clock, besidesWorker>>

Tick ==
  /\ clock < MaxTicks * TickLength
  /\ input' = [kind |-> "none"]
  /\ op' = "tick"
  /\ clock' = clock + TickLength
  /\ ret' = Normal
  /\ UNCHANGED <<workerVars, besidesWorker>>

NextWorker ==
  \/ HandleApiRequest
  \/ SettlePut
  \/ CleanupExpiredCache
  \/ Tick

SpecWorker == InitWorker /\ [][NextWorker]_vars

-----------------------------------------------------------------------------
(* EventBus (src/unnamed/part_002): the listeners of one event.  A listener  *)
(* is [id, priority, once]; the callback of a listener registered with once() *)
(* unsubscribes itself and then runs, any other callback leaves the bus alone. *)

Priorities == {0, 1}

\* listeners.findIndex(l => l.priority < priority), positions counting from 1
\* and 0 standing for "not found"
insertIndex(list, priority) ==
  LET lower == { i \in 1..Len(list) : list[i].priority < priority }
  IN  IF lower = {} THEN 0 ELSE SetMin(lower)

\* push(listener), or splice(insertIndex, 0, listener)
on(list, listener) ==
  IF insertIndex(list, listener.priority) = 0
  THEN Append(list, listener)
  ELSE SubSeq(list, 1, insertIndex(list, listener.priority) - 1)
         \o <<listener>>
         \o SubSeq(list, insertIndex(list, listener.priority), Len(list))

\* off(event, listenerId): the array without the listener of that id
off(list, listenerId) ==
  LET found == { i \in 1..Len(list) : list[i].id = listenerId }
  IN  IF found = {} THEN list
      ELSE SubSeq(list, 1, SetMin(found) - 1) \o SubSeq(list, SetMin(found) + 1, Len(list))

\* for (const listener of listeners) listener.callback(processedEvent): the
\* iterator reads the array itself, position by position, until the position is
\* beyond its current length
RECURSIVE emit(_, _, _)
emit(list, next, called) ==
  IF next > Len(list)
  THEN [listeners |-> list, delivered |-> called]
  ELSE emit(IF list[next].once THEN off(list, list[next].id) ELSE list,
            next + 1, Append(called, list[next].id))

InitBus ==
  /\ input = [kind |-> "bus"]
  /\ op = "EventBus"
  /\ ret = NoReturn
  /\ cities = <<>>
  /\ searchIndex = EmptyMap
  /\ searchHistory = EmptyMap
  /\ NoStore
  /\ NoServices

\* on(e, callback, priority) and once(e, callback, priority)
Subscribe ==
  \E priority \in Priorities, once \in BOOLEAN :
    /\ registered < MaxListeners
    /\ input' = [kind |-> "listener", priority |-> priority, once |-> once]
    /\ op' = IF once THEN "once" ELSE "on"
    /\ registered' = registered + 1
    /\ listeners' =
         on(listeners, [id |-> registered + 1, priority |-> priority, once |-> once])
    /\ ret' = Normal
    /\ UNCHANGED <<delivered, besidesBus>>

\* the function on() returned is called
Unsubscribe ==
  \E listenerId \in 1..registered :
    /\ input' = [kind |-> "id", id |-> listenerId]
    /\ op' = "off"
    /\ listeners' = off(listeners, listenerId)
    /\ ret' = Return(listeners' # listeners)
    /\ UNCHANGED <<delivered, registered, besidesBus>>

Emit ==
  /\ input' = [kind |-> "none"]
  /\ op' = "emit"
  /\ listeners' = emit(listeners, 1, <<>>).listeners
  /\ delivered' = emit(listeners, 1, <<>>).delivered
  /\ ret' = Normal
  /\ UNCHANGED <<registered, besidesBus>>

NextBus ==
  \/ Subscribe
  \/ Unsubscribe
  \/ Emit

SpecBus == InitBus /\ [][NextBus]_vars

-----------------------------------------------------------------------------
(* DataManager (src/modules/DataManager.js): cachedFetch and fetchWithRetry *)

retryAttempts == 3
retryDelay == 1000
\* options.ttl || 300000
DefaultTtl == 300000
\* maxAge of loadFromStorage
MaxStorageAge == 24 * 60 * 60 * 1000

Urls == {"/geo/1.0/direct"}
\* the ttl of a call: none, 0 and the 600000 of fetchAQIData
Ttls == {Undefined, 0, 2 * DefaultTtl}
FetchOptions == [ttl : Ttls, allowStale : BOOLEAN]

\* JSON.stringify(options) of these options
stringify(options) ==
  LET ttl == CASE options.ttl = Undefined -> ""
               [] options.ttl = 0 -> "\"ttl\":0"
               [] OTHER -> "\"ttl\":600000"
      allowStale == IF options.allowStale THEN "\"allowStale\":true" ELSE ""
      comma == IF ttl # "" /\ allowStale # "" THEN "," ELSE ""
  IN "{" \o ttl \o comma \o allowStale \o "}"

\* `${url}_${JSON.stringify(options)}`
cacheKey(url, options) == url \o "_" \o stringify(options)

\* a || b on numbers
orElse(a, b) == IF a = Undefined \/ a = NaN \/ a = 0 THEN b ELSE a

isCacheValid(cached, ttl, now) == now - cached.timestamp < ttl

\* a variant to compare with: one more attempt
retriesOnceMore(attempt) == attempt <= retryAttempts

\* attempt < this.retryAttempts
retries(attempt) == attempt < retryAttempts

\* what fetch() settles with: a response (status, body) or a rejection
FetchOutcomes == {"ok", "okNotJSON", "serverError", "failed"}

\* the response of attempt number attempt of call number request
fetchResponse(outcome, request, attempt) ==
  [status |-> IF outcome = "serverError" THEN 500 ELSE 200,
   json |-> outcome = "ok",
   request |-> request,
   attempt |-> attempt]

\* the error an attempt ends with
fetchError(name, request, attempt) ==
  [name |-> name, request |-> request, attempt |-> attempt]

Rejected(error) == [completion |-> "throw", value |-> error]

\* response.json(): the parsed body
json(response) == [request |-> response.request, attempt |-> response.attempt]

InitData ==
  /\ input = [kind |-> "data"]
  /\ op = "DataManager"
  /\ ret = NoReturn
  /\ cities = <<>>
  /\ searchIndex = EmptyMap
  /\ searchHistory = EmptyMap
  /\ NoStore
  /\ NoServices

\* cachedFetch(url, options) up to its first await
CachedFetch ==
  \E url \in Urls, options \in FetchOptions :
    LET key == cacheKey(url, options)
        cached == IF key \in DOMAIN dataCache THEN dataCache[key] ELSE NoEntry
    IN
    /\ fetchCall.phase = "idle"
    /\ requests < MaxRequests
    /\ input' = [kind |-> "fetch", url |-> url, options |-> options]
    /\ op' = "cachedFetch"
    /\ requests' = requests + 1
    /\ attempts' = <<>>
    /\ waits' = <<>>
    /\ IF cached # NoEntry
            /\ isCacheValid(cached, orElse(options.ttl, DefaultTtl), clock)
       THEN /\ ret' = Return(cached.data)
            /\ fetchCall' =
                 [method |-> "cachedFetch", url |-> url, options |-> options,
                  began |-> clock, attempt |-> 0, phase |-> "idle",
                  cached |-> cached]
       ELSE /\ ret' = NoReturn
            /\ fetchCall' =
                 [method |-> "cachedFetch", url |-> url, options |-> options,
                  began |-> clock, attempt |-> 1, phase |-> "fetch",
                  cached |-> cached]
    /\ UNCHANGED <<dataCache, storage, clock, besidesData>>

\* fetchWithRetry(url, options) up to its first await
FetchWithRetry ==
  \E url \in Urls :
    /\ fetchCall.phase = "idle"
    /\ requests < MaxRequests
    /\ input' = [kind |-> "fetch", url |-> url, options |-> NoOptions]
    /\ op' = "fetchWithRetry"
    /\ requests' = requests + 1
    /\ attempts' = <<>>
    /\ waits' = <<>>
    /\ ret' = NoReturn
    /\ fetchCall' =
         [method |-> "fetchWithRetry", url |-> url, options |-> NoOptions,
          began |-> clock, attempt |-> 1, phase |-> "fetch",
          cached |-> NoEntry]
    /\ UNCHANGED <<dataCache, storage, clock, besidesData>>

\* the catch block of cachedFetch
staleOrThrow(error) ==
  IF fetchCall.cached # NoEntry /\ fetchCall.options.allowStale
  THEN Return(fetchCall.cached.data)
  ELSE Rejected(error)

\* the fetch of the call settles; the call runs on to its next await or its end
FetchSettles ==
  \E outcome \in FetchOutcomes, saved \in BOOLEAN :
    LET response == fetchResponse(outcome, requests, fetchCall.attempt)
        error ==
          fetchError(IF outcome = "failed" THEN "TypeError" ELSE "Error",
                     requests, fetchCall.attempt)
        syntaxError == fetchError("SyntaxError", requests, fetchCall.attempt)
        key == cacheKey(fetchCall.url, fetchCall.options)
    IN
    /\ fetchCall.phase = "fetch"
    /\ attempts' = Append(attempts, outcome)
    /\ IF outcome \in {"ok", "okNotJSON"}
       THEN \* fetchWithRetry returns the response
            /\ fetchCall' = [fetchCall EXCEPT !.phase = "idle"]
            /\ IF fetchCall.method = "fetchWithRetry"
               THEN /\ ret' = Return(response)
                    /\ ~saved
                    /\ UNCHANGED <<dataCache, storage>>
               ELSE IF response.json
               THEN /\ dataCache' =
                         mapSet(dataCache, key,
                                [data |-> json(response), timestamp |-> clock])
                    \* saveToStorage: setItem may throw, which is caught
                    /\ storage' = IF saved THEN dataCache' ELSE storage
                    /\ ret' = Return(json(response))
               ELSE /\ ret' = staleOrThrow(syntaxError)
                    /\ ~saved
                    /\ UNCHANGED <<dataCache, storage>>
       ELSE /\ ~saved
            /\ UNCHANGED <<dataCache, storage>>
            /\ IF retries(fetchCall.attempt)
               THEN /\ fetchCall' = [fetchCall EXCEPT !.phase = "delay"]
                    /\ ret' = NoReturn
               ELSE /\ fetchCall' = [fetchCall EXCEPT !.phase = "idle"]
                    /\ ret' = IF fetchCall.method = "fetchWithRetry"
                              THEN Rejected(error)
                              ELSE staleOrThrow(error)
    /\ UNCHANGED <<input, op, waits, requests, clock, besidesData>>

\* the timer of delay(retryDelay * attempt) fires; the next attempt starts
DelayElapses ==
  /\ fetchCall.phase = "delay"
  /\ clock' = clock + retryDelay * fetchCall.attempt
  /\ waits' = Append(waits, retryDelay * fetchCall.attempt)
  /\ fetchCall' =
       [fetchCall EXCEPT !.phase = "fetch", !.attempt = fetchCall.attempt + 1]
  /\ UNCHANGED <<input, op, ret, dataCache, storage, attempts, requests,
                 besidesData>>

\* the page is loaded again: new DataManager(), then loadFromStorage()
LoadFromStorage ==
  /\ fetchCall.phase = "idle"
  /\ fetchCall' = NoCall
  /\ input' = [kind |-> "none"]
  /\ op' = "loadFromStorage"
  /\ ret' = Normal
  /\ dataCache' =
       [key \in {k \in DOMAIN storage :
                   clock - storage[k].timestamp < MaxStorageAge} |->
          storage[key]]
  /\ attempts' = <<>>
  /\ waits' = <<>>
  /\ UNCHANGED <<storage, requests, clock, besidesData>>

NextData ==
  \/ CachedFetch
  \/ FetchWithRetry
  \/ FetchSettles
  \/ DelayElapses
  \/ LoadFromStorage
  \/ Tick

SpecData == InitData /\ [][NextData]_vars

\* every fetch settles and every timer fires
SpecDataFair ==
  SpecData /\ WF_vars(FetchSettles) /\ WF_vars(DelayElapses)

-----------------------------------------------------------------------------
(* AQIApp.searchCity (src/App.js): searches that overlap                     *)
(* appState holds the properties of the store that searchCity writes.  A     *)
(* setState merges its updates into them once validateState has accepted the *)
(* merged state; the history and the listeners of the store are followed in  *)
(* SpecState.  A searchCity call runs from one await to the next in one step.*)

\* components.pm2_5 of the answers of the air pollution API
PM25Readings == {1200, 3550, -100}

\* the state after this.state.setState(updates): unchanged where it throws
setStateOf(object, updates) ==
  IF validateState(applyUpdates(object, updates)) = Normal
  THEN applyUpdates(object, updates)
  ELSE object

\* the catch block of searchCity
searchFailed(object, message) ==
  setStateOf(object, [error |-> message, loading |-> FALSE])

\* newState of searchCity
newStateOf(cityData, pm2_5) ==
  [currentCity |-> cityData,
   currentAQI |-> searchCityState(pm2_5).currentAQI,
   currentPM25 |-> searchCityState(pm2_5).currentPM25,
   cigarettesEquivalent |-> searchCityState(pm2_5).cigarettesEquivalent,
   loading |-> FALSE]

InitApp ==
  /\ input = [kind |-> "app"]
  /\ op = "AQIApp"
  /\ ret = NoReturn
  /\ cities = <<>>
  /\ searchIndex = EmptyMap
  /\ searchHistory = EmptyMap
  /\ NoStore
  /\ NoServices

\* searchCity(query) up to its first await
SearchCityStarts ==
  \E query \in {cityData.name : cityData \in CityData} :
    /\ Len(searches) < MaxSearches
    /\ input' = [kind |-> "query", query |-> query]
    /\ op' = "searchCity"
    /\ ret' = NoReturn
    /\ appState' = setStateOf(appState, [loading |-> TRUE, error |-> NoError])
    /\ searches' =
         Append(searches, [query |-> query, stage |-> "city",
                           cityData |-> NoCity, pm25 |-> Null])
    /\ UNCHANGED <<clock, besidesApp>>

\* await fetchCityData(query) of one of the calls settles
FetchCityDataSettles ==
  \E i \in DOMAIN searches, found \in BOOLEAN :
    /\ searches[i].stage = "city"
    /\ IF found
       THEN /\ searches' =
                 [searches EXCEPT
                    ![i].stage = "aqi",
                    ![i].cityData =
                      CHOOSE cityData \in CityData :
                        cityData.name = searches[i].query]
            /\ UNCHANGED appState
       ELSE /\ searches' = [searches EXCEPT ![i].stage = "failed"]
            /\ appState' = searchFailed(appState, "City not found")
    /\ UNCHANGED <<input, op, ret, clock, besidesApp>>

\* await fetchAQIData(lat, lon) of one of the calls settles; the call runs on
\* to its end
FetchAQIDataSettles ==
  \E i \in DOMAIN searches, pm2_5 \in PM25Readings, available \in BOOLEAN :
    LET newState == newStateOf(searches[i].cityData, pm2_5)
        thrown == validateState(applyUpdates(appState, newState))
    IN
    /\ searches[i].stage = "aqi"
    /\ IF ~available
       THEN /\ searches' = [searches EXCEPT ![i].stage = "failed"]
            /\ appState' = searchFailed(appState, "No AQI data available")
       ELSE IF thrown # Normal
       THEN /\ searches' = [searches EXCEPT ![i].stage = "failed"]
            /\ appState' = searchFailed(appState, thrown.value)
       ELSE /\ searches' =
                 [searches EXCEPT ![i].stage = "done", ![i].pm25 = pm2_5]
            /\ appState' = setStateOf(appState, newState)
    /\ UNCHANGED <<input, op, ret, clock, besidesApp>>

NextApp ==
  \/ SearchCityStarts
  \/ FetchCityDataSettles
  \/ FetchAQIDataSettles

SpecApp == InitApp /\ [][NextApp]_vars

-----------------------------------------------------------------------------
(* Properties of the conversion engine *)

IsNumber(x) == ToNumber(x) # NaN
\* the integers 0, 1, ..., 500
IntegerAQIs == { Scale * k : k \in 0 .. 500 }
Abs(x) == IF x < 0 THEN 0 - x ELSE x

\* C1: for every pm25 in [0, 500.4] on the 0.01 grid, calculateAQIFromPM25(pm25)
\* (AQICalculator and SimpleAQIApp) is an integer in [0, 500] and no smaller
\* concentration of the domain has a larger result.
C1_RangeAndMonotone ==
  /\ (op = "calculateAQIFromPM25" /\ Ge(input.pm25, 0) /\ Le(input.pm25, 50040)) =>
       /\ ret.value \in IntegerAQIs
       /\ \A q \in 0 .. input.pm25 : calculateAQIFromPM25(q) <= ret.value
  /\ (op = "simpleCalculateAQIFromPM25" /\ Ge(input.pm25, 0) /\ Le(input.pm25, 50040)) =>
       /\ ret.value \in IntegerAQIs
       /\ \A q \in 0 .. input.pm25 : simpleCalculateAQIFromPM25(q) <= ret.value

\* C2: every numeric pm25 in [0, 500.4] lies in some segment [min, max] of the
\* table, and every numeric aqi in [0, 500] lies in some [aqiMin, aqiMax], so
\* the return 0 after the loop is not reached for them.
C2_SomeSegmentContains ==
  /\ (op = "calculateAQIFromPM25" /\ Ge(input.pm25, 0) /\ Le(input.pm25, 50040)) =>
       pm25Segments(input.pm25) # {}
  /\ (op = "calculatePM25FromAQI" /\ Ge(input.aqi, 0) /\ Le(input.aqi, 50000)) =>
       aqiSegments(input.aqi) # {}

\* C3: round trip: for every integer aqi in [0, 500] the AQI of
\* calculatePM25FromAQI(aqi) differs from aqi by at most 1.
C3_RoundTrip ==
  (op = "calculatePM25FromAQI" /\ input.aqi \in IntegerAQIs) =>
    Abs(calculateAQIFromPM25(ret.value) - input.aqi) <= Scale

\* C4: end to end: the reading PM2.5 = 35.4 gives AQI 100, 1.61 cigarettes per
\* day and the risk level moderate.
C4_EndToEnd ==
  (op = "searchCity" /\ input.pm25 = 3540) =>
    /\ ret.value.currentAQI = 10000
    /\ ret.value.cigarettesEquivalent = "1.61"
    /\ assessHealthRisk(ret.value.currentAQI).level = "moderate"

\* the concentration of aqi by reverse interpolation on its segment, divided
\* by 22, to two decimal places
interpolatedCigarettes(aqi) ==
  LET b == aqiBreakpoints[SetMin(aqiSegments(aqi))]
  IN  toFixed2(Double((aqi - b.aqiMin) * (b.max - b.min) + b.min * (b.aqiMax - b.aqiMin),
                      22 * (b.aqiMax - b.aqiMin), 0, FALSE))

\* C5: for every integer aqi of [0, 500] calculateCigarettes(aqi) is the
\* reverse-interpolated concentration divided by 22, to two decimal places; it
\* is not negative, 0.00 for aqi = 0 and 0.55 for aqi = 50.
C5_Cigarettes ==
  (op = "calculateCigarettes" /\ input.aqi \in IntegerAQIs) =>
    /\ ret.value = interpolatedCigarettes(input.aqi)
    /\ calculatePM25FromAQI(input.aqi) >= 0
    /\ (input.aqi = 0 => ret.value = "0.00")
    /\ (input.aqi = 5000 => ret.value = "0.55")

\* C6: calculateAQIFromPM25 and calculatePM25FromAQI called with NaN or
\* undefined signal an error: the call does not return a number.
C6_InvalidInputSignalled ==
  /\ (op = "calculateAQIFromPM25" /\ ~IsNumber(input.pm25)) => ret.completion = "throw"
  /\ (op = "calculatePM25FromAQI" /\ ~IsNumber(input.aqi)) => ret.completion = "throw"

\* the band of an integer AQI: 1 good .. 6 severe, 7 above 500
riskBand(aqi) ==
  IF aqi <= 5000 THEN 1
  ELSE IF aqi <= 10000 THEN 2
  ELSE IF aqi <= 15000 THEN 3
  ELSE IF aqi <= 20000 THEN 4
  ELSE IF aqi <= 30000 THEN 5
  ELSE IF aqi <= 50000 THEN 6
  ELSE 7

bandLevels ==
  << "good", "moderate", "unhealthy", "very-unhealthy", "hazardous", "severe" >>

\* C7: an integer AQI is classified good on [0,50], moderate on [51,100],
\* unhealthy on [101,150], very-unhealthy on [151,200], hazardous on [201,300],
\* severe on [301,500], and above 500 in a category that is not severe, by the
\* level of assessHealthRisk and by the category of getAQICategory.
C7_Classification ==
  /\ (op = "assessHealthRisk" /\ Ge(input.aqi, 0) /\ input.aqi % Scale = 0) =>
       IF riskBand(input.aqi) = 7
       THEN ret.value.level # "severe"
       ELSE ret.value.level = bandLevels[riskBand(input.aqi)]
  /\ (op = "getAQICategory" /\ Ge(input.aqi, 0) /\ input.aqi % Scale = 0) =>
       IF riskBand(input.aqi) = 7
       THEN ret.value.description # categories[6].description
       ELSE ret.value.description = categories[riskBand(input.aqi)].description

\* C8: boundary exactness: at the upper concentration bound of a segment
\* calculateAQIFromPM25 returns the segment's aqiMax (12.0 -> 50, 35.4 -> 100,
\* 55.4 -> 150, 150.4 -> 200, ...) and at the lower bound its aqiMin.
C8_BoundaryExact ==
  op = "calculateAQIFromPM25" =>
    \A i \in DOMAIN aqiBreakpoints :
      /\ input.pm25 = aqiBreakpoints[i].max => ret.value = aqiBreakpoints[i].aqiMax
      /\ input.pm25 = aqiBreakpoints[i].min => ret.value = aqiBreakpoints[i].aqiMin

\* the call with 35.4 has returned 100
C8_Witness ==
  op = "calculateAQIFromPM25" /\ input.pm25 = 3540 /\ ret.value = 10000

\* C9: clamping in the three PM2.5 -> AQI implementations: a negative pm25 gives
\* 0, a pm25 above 500.4 gives 500, and no numeric input gives a result outside
\* [0, 500].
C9_Clamping ==
  (op \in {"calculateAQIFromPM25", "simpleCalculateAQIFromPM25", "scriptCalculateAQIFromPM25"}
     /\ IsNumber(input.pm25)) =>
    /\ input.pm25 < 0 => ret.value = 0
    /\ input.pm25 > 50040 => ret.value = 50000
    /\ 0 <= ret.value /\ ret.value <= 50000

\* degrees above 25 and percent above 70
excessTemperature == IF input.temperature > 2500 THEN (input.temperature - 2500) \div Scale ELSE 0
excessHumidity == IF input.humidity > 7000 THEN (input.humidity - 7000) \div Scale ELSE 0

-----------------------------------------------------------------------------
(* Properties of the city matcher *)

\* the call just made is fuzzySearch and it returned a list
Searched == op = "fuzzySearch" /\ ret.completion = "return"

\* C11: fuzzySearch answers a query of fewer than 2 characters with the empty list,
\* and so does it when the string it compares (the query lower-cased and trimmed)
\* has fewer than 2 characters: no candidate is matched against such a string.
C11_ShortQueryRejected ==
  op = "fuzzySearch" =>
    (Len(input.query) < 2 \/ Len(queryLowerOf(input.query)) < 2 => ret = Return(<<>>))

\* the positions of the result list that hold the candidate
entriesOf(results, city) == { k \in 1 .. Len(results) : results[k].city = city }

MaxOf(a, b) == IF a >= b THEN a ELSE b

\* 1 - Levenshtein(a, b) / max(len(a), len(b)), plus 0.2 capped at 1.0 when one
\* string is a substring of the other
statedSimilarity(a, b) ==
  LET distance == IF Len(a) <= Len(b) THEN levenshtein(a, b) ELSE levenshtein(b, a)
      plain == Fraction(MaxOf(Len(a), Len(b)) - distance, MaxOf(Len(a), Len(b)))
  IN  IF includes(a, b) \/ includes(b, a)
      THEN FracMin(FracAdd(plain, Fraction(2, 10)), Fraction(1, 1))
      ELSE plain

\* C12: in the list fuzzySearch returns, each candidate appears at most once; a
\* candidate whose lower-cased display name starts with the query has score 1.0
\* and matchType prefix; any other candidate is there with matchType fuzzy exactly
\* when its similarity to the query is at least 0.6, and then its score is that
\* similarity.
C12_PrefixAndFuzzy ==
  Searched /\ ~rejectsQuery(input.query) =>
    \A i \in 1 .. Len(cities) :
      LET query == queryLowerOf(input.query)
          name == toLowerCase(fullNameOf(cities[i]))
          entries == entriesOf(ret.value, cities[i])
      IN  /\ Cardinality(entries) <= 1
          /\ IF startsWith(name, query)
             THEN \E k \in entries :
                    /\ ret.value[k].score = Fraction(1, 1)
                    /\ ret.value[k].matchType = "prefix"
             ELSE /\ (\E k \in entries : ret.value[k].matchType = "fuzzy")
                       <=> FracLe(Fraction(6, 10), statedSimilarity(query, name))
                  /\ \A k \in entries :
                       /\ ret.value[k].matchType # "prefix"
                       /\ ret.value[k].matchType = "fuzzy" =>
                            ret.value[k].score = statedSimilarity(query, name)

\* a search returned a fuzzy match whose score
\* carries the substring boost ("paris" in "st paris": 1 - 3/8 + 0.2)
C12_Witness ==
  /\ Searched
  /\ \E k \in 1 .. Len(ret.value) :
       /\ ret.value[k].matchType = "fuzzy"
       /\ ret.value[k].score = Fraction(33, 40)
       /\ includes(toLowerCase(fullNameOf(ret.value[k].city)), queryLowerOf(input.query))

\* C13: every result of fuzzySearch has a score in the closed interval [0, 1],
\* whatever its matchType.
C13_ScoreInUnitInterval ==
  Searched =>
    \A k \in 1 .. Len(ret.value) :
      /\ FracLe(Fraction(0, 1), ret.value[k].score)
      /\ FracLe(ret.value[k].score, Fraction(1, 1))

\* C14: the list fuzzySearch returns is ordered: for a result a before a result b,
\* score(a) >= score(b); with equal scores the matchType priority of a is not lower
\* (prefix > fuzzy > word); with both equal the popularity of a is not lower.
C14_TotallyOrdered ==
  Searched =>
    \A a, b \in 1 .. Len(ret.value) :
      a < b =>
        LET first == ret.value[a]
            second == ret.value[b]
        IN  /\ FracLe(second.score, first.score)
            /\ first.score = second.score =>
                 typePriority(first.matchType) >= typePriority(second.matchType)
            /\ first.score = second.score /\ first.matchType = second.matchType =>
                 getCityPopularity(first.city, searchHistory)
                   >= getCityPopularity(second.city, searchHistory)

\* the pairs of a query token and a candidate token with similarity > 0.8
statedWordPairs(query, name) ==
  LET queryTokens == splitSpaces(query)
      nameTokens == splitSpacesCommas(name)
  IN  { pair \in (1 .. Len(queryTokens)) \X (1 .. Len(nameTokens)) :
          FracLt(Fraction(8, 10), statedSimilarity(queryTokens[pair[1]], nameTokens[pair[2]])) }

\* C15: a word result is returned only when no candidate of the list is a prefix or
\* a fuzzy match, so a list never holds a word result together with a prefix or a
\* fuzzy result; the score of a word result is the number of pairs of a query token
\* and a candidate token with similarity > 0.8, divided by the number of query tokens.
C15_WordFallback ==
  Searched =>
    \A k \in 1 .. Len(ret.value) :
      ret.value[k].matchType = "word" =>
        LET query == queryLowerOf(input.query)
            name == toLowerCase(fullNameOf(ret.value[k].city))
        IN  /\ \A j \in 1 .. Len(ret.value) : ret.value[j].matchType = "word"
            /\ \A i \in 1 .. Len(cities) :
                 LET other == toLowerCase(fullNameOf(cities[i]))
                 IN  /\ ~startsWith(other, query)
                     /\ FracLt(statedSimilarity(query, other), Fraction(6, 10))
            /\ ret.value[k].score =
                 Fraction(Cardinality(statedWordPairs(query, name)),
                          Len(splitSpaces(query)))

\* a search fell back to the word pass: "lond0n" matches the word "london" of
\* "london, gb" and nothing else
C15_Witness ==
  /\ Searched
  /\ input.query = "lond0n"
  /\ \E k \in 1 .. Len(ret.value) :
       ret.value[k].matchType = "word" /\ ret.value[k].city = London

\* C16: each recordSearch(city) strictly increases getCityPopularity(city), for
\* every city, the cities of the popular list included.
C16_RecordSearchRaisesPopularity ==
  [][ op' = "recordSearch" =>
        getCityPopularity(input'.city, searchHistory')
          > getCityPopularity(input'.city, searchHistory) ]_vars

matchesInNoPass(query, city) ==
  LET name == toLowerCase(fullNameOf(city))
  IN  /\ ~startsWith(name, query)
      /\ FracLt(statedSimilarity(query, name), Fraction(6, 10))
      /\ statedWordPairs(query, name) = {}

\* C18: over a list of candidates that all have a name and a country (state and
\* displayName may be absent) fuzzySearch returns, it does not throw; a query that
\* matches no candidate in any pass returns the empty list, as "xyzzy" does against
\* the list of London, GB alone.
C18_NeverThrows ==
  op = "fuzzySearch" /\ (\A i \in 1 .. Len(cities) : WellFormed(cities[i])) =>
    /\ ret.completion = "return"
    /\ (\A i \in 1 .. Len(cities) :
          matchesInNoPass(queryLowerOf(input.query), cities[i])) => ret.value = <<>>
    /\ input.query = "xyzzy" /\ cities = <<London>> => ret.value = <<>>

\* "xyzzy" has been searched in the list of London, GB alone
C18_Witness ==
  /\ op = "fuzzySearch"
  /\ input.query = "xyzzy"
  /\ cities = <<London>>
  /\ ret = Return(<<>>)

\* the positions (from 0) the index lists under the term
positionsUnder(term) ==
  IF term \in DOMAIN searchIndex
  THEN { searchIndex[term][k] : k \in 1 .. Len(searchIndex[term]) }
  ELSE {}

\* C19: in every state searchIndex is the index of the current candidate list: every
\* candidate of cities is listed at its position under its lower-cased full name, and
\* every position listed under a term is a position of cities whose candidate yields
\* the term.  There is no state in which cities is the new list while searchIndex is
\* empty or holds only a part of it.
C19_IndexOfCurrentCities ==
  /\ \A i \in 1 .. Len(cities) :
       ~fullNameThrows(cities[i]) =>
         (i - 1) \in positionsUnder(toLowerCase(fullNameOf(cities[i])))
  /\ \A term \in DOMAIN searchIndex :
       \A position \in positionsUnder(term) :
         /\ position < Len(cities)
         /\ term \in extractSearchTerms(cities[position + 1])

-----------------------------------------------------------------------------
(* Properties of the state store *)

\* the current state of the store, the elements of its array included
storedState == contents(currentState, arrays)

\* C20: the state of the store and the states of its undo history change only
\* through setState, batchUpdate, undo and reset (updateSearchHistory going through
\* setState): no step in which a client reads getState(), assigns a property of the
\* object it was given or unshifts an element into its searchHistory array changes
\* the current state or a state of the undo history.
C20_ImmutableSnapshot ==
  [][ op' \in {"getState", "assign", "unshift"} =>
        /\ storedState' = storedState
        /\ stateHistory' = stateHistory ]_vars

\* C23: whenever updateSearchHistory changes the search history of the store, the
\* listeners are notified exactly once, with a diff whose key searchHistory holds
\* the history before the call as previous and the history after it as current.
C23_HistoryChangeNotified ==
  [][ ( /\ op' = "updateSearchHistory"
        /\ storedState'.searchHistory # storedState.searchHistory )
      => ( /\ Len(notified') = 1
           /\ "searchHistory" \in DOMAIN notified'[1]
           /\ notified'[1].searchHistory =
                [previous |-> storedState.searchHistory,
                 current |-> storedState'.searchHistory] ) ]_vars

\* C24: batchUpdate(updates), called while no update is in progress and with
\* updates that pass the validation, leaves the state equal to the previous state
\* merged with the updates, notifies the listeners of the changes (if any) and
\* leaves isUpdating false.
C24_BatchUpdateApplies ==
  [][ ( /\ op' = "batchUpdate"
        /\ ~isUpdating
        /\ validateState(applyUpdates(currentState, input'.updates)) = Normal )
      => ( /\ storedState' = applyUpdates(storedState, input'.updates)
           /\ (storedState' # storedState => Len(notified') = 1)
           /\ ~isUpdating' ) ]_vars

\* C25: the undo history holds at most maxHistorySize states; a setState that
\* takes effect records exactly the state that held before it, and the undo that
\* follows restores exactly the last recorded state and returns true; undo with an
\* empty history returns false and leaves the state as it was.
C25_UndoRestores ==
  [][ /\ Len(stateHistory') <= maxHistorySize
      /\ (op' = "setState" /\ stateHistory' # stateHistory) =>
           stateHistory'[Len(stateHistory')] = storedState
      /\ (op' = "undo" /\ stateHistory # <<>>) =>
           /\ ret' = Return(TRUE)
           /\ storedState' = stateHistory[Len(stateHistory)]
      /\ (op' = "undo" /\ stateHistory = <<>>) =>
           /\ ret' = Return(FALSE)
           /\ storedState' = storedState ]_vars

\* a number outside the given range; null, undefined and NaN are not
outOfRange(x, least, greatest) ==
  x \notin {Null, Undefined, NaN} /\ (x < least \/ x > greatest)

-----------------------------------------------------------------------------
(* Properties of the copies of the engine *)

\* C21: the worker copy, the main-thread AQICalculator and SimpleAQIApp compute the
\* same conversions: for every PM2.5 input the AQI of the worker equals that of
\* AQICalculator.calculateAQIFromPM25 and that of SimpleAQIApp.calculateAQIFromPM25,
\* and for every AQI input the PM2.5 of the worker equals that of
\* AQICalculator.calculatePM25FromAQI.
C21_SameConversions ==
  /\ op = "workerCalculateAQIFromPM25" =>
       /\ ret.value = calculateAQIFromPM25(input.pm25)
       /\ ret.value = simpleCalculateAQIFromPM25(input.pm25)
  /\ op = "workerCalculatePM25FromAQI" =>
       ret.value = calculatePM25FromAQI(input.aqi)

-----------------------------------------------------------------------------
(* Properties of the service worker *)

\* C22: once a request has been answered with a response of ok status (and the
\* cache.put of that response has settled), a later identical request whose network
\* fetch fails is answered with a response of the server kept in the cache, not
\* with an error and not with the offline placeholder.
C22_OfflineFromCache ==
  [][ ( /\ op' = "handleApiRequest"
        /\ input'.outcome = "failed"
        /\ input'.request \in answered
        /\ \A put \in pendingPuts : put.request # input'.request )
      => ( /\ ret'.completion = "return"
           /\ ok(ret'.value)
           /\ ~ret'.value.offline ) ]_vars

-----------------------------------------------------------------------------
(* Properties of the event bus *)

\* the ids of the listeners of the array
idsOf(list) == { list[i].id : i \in 1..Len(list) }

\* the priority the listener of that id was registered with
priorityOf(list, listenerId) ==
  (CHOOSE l \in { list[i] : i \in 1..Len(list) } : l.id = listenerId).priority

\* C27: an emit calls every listener that is subscribed when it starts exactly
\* once, in descending order of priority and in the order of registration among
\* equal priorities, listeners registered with once() included; a once-listener
\* that was called is subscribed no longer, every other listener stays subscribed.
C27_EmitDeliversToAll ==
  [][ op' = "emit" =>
        /\ Len(delivered') = Len(listeners)
        /\ { delivered'[i] : i \in 1..Len(delivered') } = idsOf(listeners)
        /\ \A i \in 1..(Len(delivered') - 1) :
             \/ priorityOf(listeners, delivered'[i])
                  > priorityOf(listeners, delivered'[i + 1])
             \/ /\ priorityOf(listeners, delivered'[i])
                     = priorityOf(listeners, delivered'[i + 1])
                /\ delivered'[i] < delivered'[i + 1]
        /\ idsOf(listeners') =
             { listeners[i].id : i \in { j \in 1..Len(listeners) : ~listeners[j].once } }
    ]_vars

-----------------------------------------------------------------------------
(* Properties of the DataManager *)

\* Response.ok of the response an attempt ended with
answeredOk(outcome) == outcome \in {"ok", "okNotJSON"}

\* the attempts and the waits of a fetchWithRetry, running or completed:
\* at most 3 attempts, 1000 ms then 2000 ms between them, no attempt after
\* a response with ok status; the call returns that response, and it throws
\* the error of the third attempt and of no other
fetchWithRetryBounded ==
  /\ Len(attempts) <= 3
  /\ Len(waits) <= 2
  /\ \A i \in 1..Len(waits) : waits[i] = 1000 * i
  /\ Len(waits) =
       IF fetchCall.phase = "fetch" \/ attempts = <<>>
       THEN Len(attempts) ELSE Len(attempts) - 1
  /\ \A i \in 1..(Len(attempts) - 1) : ~answeredOk(attempts[i])
  /\ fetchCall.phase = "idle" /\ attempts # <<>> =>
       \/ answeredOk(attempts[Len(attempts)])
       \/ Len(attempts) = 3
  /\ fetchCall.method = "fetchWithRetry" /\ ret.completion = "return" =>
       /\ answeredOk(attempts[Len(attempts)])
       /\ ret.value =
            fetchResponse(attempts[Len(attempts)], requests, Len(attempts))
  /\ fetchCall.method = "fetchWithRetry" /\ ret.completion = "throw" =>
       /\ Len(attempts) = 3
       /\ ~answeredOk(attempts[3])
       /\ ret.value =
            fetchError(IF attempts[3] = "failed" THEN "TypeError" ELSE "Error",
                       requests, 3)

\* C28: fetchWithRetry always terminates: it makes at most retryAttempts (3)
\* network attempts, waits retryDelay * attempt (1000 ms, then 2000 ms)
\* between them, returns the first response with ok status without a further
\* attempt, and throws the error of the third attempt when that one fails too.
C28_FetchWithRetryTerminates ==
  /\ []fetchWithRetryBounded
  /\ (fetchCall.phase # "idle") ~> (fetchCall.phase = "idle")

\* a fetchWithRetry has thrown after three attempts and two waits
C28_Witness ==
  /\ fetchCall.method = "fetchWithRetry"
  /\ fetchCall.phase = "idle"
  /\ ret.completion = "throw"
  /\ Len(attempts) = 3
  /\ waits = <<1000, 2000>>

\* the ttl a call asks for: options.ttl, 300000 ms where the call names none
ttlOf(options) == IF options.ttl = Undefined THEN 300000 ELSE options.ttl

\* a cachedFetch that has returned
returned ==
  /\ fetchCall.method = "cachedFetch"
  /\ fetchCall.phase = "idle"
  /\ ret.completion = "return"

\* a call that returned without a network request found an entry younger
\* than its ttl
cacheHitWithinTtl ==
  returned /\ attempts = <<>> =>
    /\ fetchCall.cached # NoEntry
    /\ ret.value = fetchCall.cached.data
    /\ fetchCall.began - fetchCall.cached.timestamp < ttlOf(fetchCall.options)

\* a call that made network requests returns what its last attempt fetched
\* and parsed, or, with allowStale, the old entry after three failed attempts
staleOnlyAfterRetries ==
  returned /\ attempts # <<>> =>
    \/ /\ attempts[Len(attempts)] = "ok"
       /\ ret.value = [request |-> requests, attempt |-> Len(attempts)]
    \/ /\ fetchCall.cached # NoEntry
       /\ ret.value = fetchCall.cached.data
       /\ fetchCall.options.allowStale
       /\ Len(attempts) = 3
       /\ \A i \in 1..3 : ~answeredOk(attempts[i])

\* the cache of a DataManager changes only in the step in which an attempt
\* has been answered with ok status and a body that parses, and then by the
\* entry of the call
storesParsedOnly ==
  dataCache' # dataCache /\ op' # "loadFromStorage" =>
    /\ attempts' # attempts
    /\ attempts'[Len(attempts')] = "ok"
    /\ dataCache' =
         mapSet(dataCache, cacheKey(fetchCall.url, fetchCall.options),
                [data |-> [request |-> requests, attempt |-> Len(attempts')],
                 timestamp |-> clock])

\* C29: cachedFetch returns a cached entry without a network request only
\* while the entry is younger than the ttl (300000 ms by default); an entry
\* at or beyond its ttl is returned only with allowStale and after the fresh
\* fetch has failed in all its attempts, otherwise the error is thrown; only
\* fetched and parsed responses are stored, a failed fetch stores nothing.
C29_CachedFetch ==
  /\ [](cacheHitWithinTtl /\ staleOnlyAfterRetries)
  /\ [][storesParsedOnly]_vars

-----------------------------------------------------------------------------
(* Properties of the application *)

\* the searchCity calls that have not completed
inFlight == {i \in DOMAIN searches : searches[i].stage \in {"city", "aqi"}}

\* C30: when searchCity calls overlap, then once all of them have completed
\* currentCity, currentAQI, currentPM25 and cigarettesEquivalent are the
\* result of the query issued last, and loading is true exactly while some
\* searchCity call is in flight.
C30_LastQueryWins ==
  /\ appState.loading = (inFlight # {})
  /\ searches # <<>> /\ inFlight = {}
       /\ searches[Len(searches)].stage = "done" =>
       LET last == searches[Len(searches)]
           result == newStateOf(last.cityData, last.pm25)
       IN  /\ appState.currentCity = result.currentCity
           /\ appState.currentAQI = result.currentAQI
           /\ appState.currentPM25 = result.currentPM25
           /\ appState.cigarettesEquivalent = result.cigarettesEquivalent

====
